---- MODULE Spec2Model ----
(***************************************************************************)
(* Verification model of the cs231n assignment code:                       *)
(*   assignment1/cs231n/classifiers/k_nearest_neighbor.py  (KNearestNeighbor)*)
(*   assignment1/cs231n/classifiers/neural_net.py          (TwoLayerNet)   *)
(*   assignment2/cs231n/classifiers/fc_net.py              (FullyConnectedNet)*)
(*   assignment2/cs231n/classifiers/cnn.py                 (ThreeLayerConvNet)*)
(*   assignment3/cs231n/rnn_layers.py                      (RNN, LSTM layers)*)
(* Arrays are sequences (1-based); real-valued quantities are modelled on  *)
(* integers, on which the arithmetic of the code is exact.                 *)
(***************************************************************************)
EXTENDS Integers, Sequences, FiniteSets, TLC

\* ------------------------------------------------------------------ bounds
NumTrain == 3
NumTest == 1
Dim == 2
MaxCoord == 1
InputSize == 1
HiddenSize == 1
NumClasses == 2
MaxN == 3
MaxBatch == 2
MaxIters == 2
MaxReg == 1
MaxProb == 1
MaxHidden == 2
MaxWidth == 2
MaxCalls == 3
MaxSide == 4
MaxFilterSize == 4
MaxFilters == 2
MaxImages == 2
MaxT == 3
MaxWords == 2
MaxVocab == 3
MaxSteps == 1
MaxGateWidth == 2
MaxSigLen == 3
MaxSigValue == 2

\* ------------------------------------------------------- generic helpers
None == "None"

RECURSIVE SumSeq(_)
SumSeq(s) == IF s = <<>> THEN 0 ELSE Head(s) + SumSeq(Tail(s))

\* the array <<F(1), ..., F(n)>>
RECURSIVE Tab(_, _)
Tab(F(_), n) == IF n = 0 THEN <<>> ELSE Append(Tab(F, n - 1), F(n))

Sq(v) == v * v

Range(s) == {s[i] : i \in DOMAIN s}

Coord == 0..MaxCoord
Vectors == [1..Dim -> Coord]
Labels == {3, 5}
NumLoopsValues == {-1, 0, 1, 2, 3, 12}

\* ------------------------------------------------------------- variables
VARIABLES knnPc, X_train, y_train, knnCall, dists, y_pred, knnError
VARIABLES nnPc, params, nnLoss, train, it, learning_rate,
          loss_history, train_acc_history, val_acc_history, idx

knnVars == <<knnPc, X_train, y_train, knnCall, dists, y_pred, knnError>>
VARIABLES fcPc, fc, fcError, fcCalls, fcCall, fcGradIds

fcVars == <<fcPc, fc, fcError, fcCalls, fcCall, fcGradIds>>
nnVars == <<nnPc, params, nnLoss, train, it, learning_rate,
           loss_history, train_acc_history, val_acc_history, idx>>
VARIABLES cnn, rnn, lstm, emb, tsl, cell, sig

moreVars == <<cnn, rnn, lstm, emb, tsl, cell, sig>>
vars == <<knnVars, nnVars, fcVars, moreVars>>

\* no call of loss has been made yet
NoCall == [labelled |-> FALSE, made |-> FALSE]
NoFCCall == [made |-> FALSE, labelled |-> FALSE]

\* ------------------------------------------- KNearestNeighbor: distances
\* dists[i, j] = np.sum((X[i, :] - self.X_train[j, :]) ** 2)
compute_distances_two_loops(X, Xtr) ==
    Tab(LAMBDA i : Tab(LAMBDA j :
            SumSeq(Tab(LAMBDA d : Sq(X[i][d] - Xtr[j][d]), Len(X[i]))),
        Len(Xtr)), Len(X))

\* dists[i] = np.sum((X[i, :] - self.X_train) ** 2, axis=1)
one_loop_row(x, Xtr) ==
    LET diff == Tab(LAMBDA j : Tab(LAMBDA d : x[d] - Xtr[j][d], Len(Xtr[j])), Len(Xtr))
        sq == Tab(LAMBDA j : Tab(LAMBDA d : Sq(diff[j][d]), Len(diff[j])), Len(diff))
    IN  Tab(LAMBDA j : SumSeq(sq[j]), Len(sq))

compute_distances_one_loop(X, Xtr) == Tab(LAMBDA i : one_loop_row(X[i], Xtr), Len(X))

\* np.sum(A ** 2, axis=1)
RowSumSq(A) == Tab(LAMBDA i : SumSeq(Tab(LAMBDA d : Sq(A[i][d]), Len(A[i]))), Len(A))

\* np.dot(X, self.X_train.T)
DotT(X, Xtr) ==
    Tab(LAMBDA i : Tab(LAMBDA j :
            SumSeq(Tab(LAMBDA d : X[i][d] * Xtr[j][d], Len(X[i]))),
        Len(Xtr)), Len(X))

compute_distances_no_loops_mutant(X, Xtr) ==
    LET x2 == RowSumSq(X)
        x_train2 == RowSumSq(Xtr)
        dot == DotT(X, Xtr)
    IN  Tab(LAMBDA i : Tab(LAMBDA j : x2[i] + x_train2[j] - dot[i][j], Len(Xtr)), Len(X))

\* dists = x2 + x_train2 - 2 * np.dot(X, self.X_train.T)
compute_distances_no_loops(X, Xtr) ==
    LET x2 == RowSumSq(X)
        x_train2 == RowSumSq(Xtr)
        dot == DotT(X, Xtr)
    IN  Tab(LAMBDA i : Tab(LAMBDA j : x2[i] + x_train2[j] - 2 * dot[i][j], Len(Xtr)), Len(X))

\* ------------------------------------------ KNearestNeighbor: the vote
\* np.argsort(row): the indices in nondecreasing order of row.  Equal entries
\* keep their index order (numpy sorts arrays of this size by insertion); any
\* other order of equal entries is the same run on a permuted training set,
\* and Train ranges over all of them.
argsort(row) ==
    LET n == Len(row)
        before(a, b) == row[a] < row[b] \/ (row[a] = row[b] /\ a < b)
        pos(j) == 1 + Cardinality({m \in 1..n : before(m, j)})
    IN  Tab(LAMBDA p : CHOOSE j \in 1..n : pos(j) = p, n)

\* Counter(closest_y): keys in order of first occurrence, with their counts
RECURSIVE CounterKeys(_, _)
CounterKeys(s, seen) ==
    IF s = <<>> THEN <<>>
    ELSE IF Head(s) \in Range(seen) THEN CounterKeys(Tail(s), seen)
         ELSE <<Head(s)>> \o CounterKeys(Tail(s), Append(seen, Head(s)))

CountOf(s, v) == Cardinality({i \in DOMAIN s : s[i] = v})

Counter(s) ==
    LET keys == CounterKeys(s, <<>>)
    IN  Tab(LAMBDA i : <<keys[i], CountOf(s, keys[i])>>, Len(keys))

\* Counter.most_common(): sorted by count, descending; the sort is stable
RECURSIVE InsertByCount(_, _)
InsertByCount(sorted, e) ==
    IF sorted = <<>> THEN <<e>>
    ELSE IF Head(sorted)[2] >= e[2] THEN <<Head(sorted)>> \o InsertByCount(Tail(sorted), e)
         ELSE <<e>> \o sorted

RECURSIVE most_common_from(_, _)
most_common_from(items, acc) ==
    IF items = <<>> THEN acc
    ELSE most_common_from(Tail(items), InsertByCount(acc, Head(items)))

most_common(counter) == most_common_from(counter, <<>>)

\* while (j < len(freq)) and (freq[j][1] == max_freq): keep the smaller label
RECURSIVE min_label_loop(_, _, _, _)
min_label_loop(freq, j, max_freq, min_label) ==
    IF j <= Len(freq) /\ freq[j][2] = max_freq
    THEN min_label_loop(freq, j + 1, max_freq,
                        IF freq[j][1] < min_label THEN freq[j][1] ELSE min_label)
    ELSE min_label

vote_first_only(closest_y) ==
    LET freq == most_common(Counter(closest_y))
    IN  freq[1][1]

\* the body of the loop over test rows, after closest_y is known
vote(closest_y) ==
    LET freq == most_common(Counter(closest_y))
        max_freq == freq[1][2]
    IN  min_label_loop(freq, 2, max_freq, freq[1][1])

\* closest_y = self.y_train[np.argsort(dists[i])[:k]]
closest(row, ytr, k) ==
    LET order == argsort(row)
    IN  Tab(LAMBDA p : ytr[order[p]], k)

predict_labels(d, ytr, k) ==
    Tab(LAMBDA i : vote(closest(d[i], ytr, k)), Len(d))

\* -------------------------------------------------- KNearestNeighbor: API
\* '%d' % n for an integer n: an optional sign and the decimal digits
DigitChar == <<"0", "1", "2", "3", "4", "5", "6", "7", "8", "9">>

RECURSIVE Digits(_)
Digits(n) ==
    IF n < 10 THEN <<DigitChar[n + 1]>> ELSE Digits(n \div 10) \o <<DigitChar[(n % 10) + 1]>>

FormatD(n) == IF n < 0 THEN <<"-">> \o Digits(0 - n) ELSE Digits(n)

\* the else branch of predict: the selector is not 0, 1 or 2
predict_falls_back(X, k, num_loops, Xtr, ytr) ==
    LET d == CASE num_loops = 0 -> compute_distances_no_loops(X, Xtr)
               [] num_loops = 1 -> compute_distances_one_loop(X, Xtr)
               [] OTHER -> compute_distances_two_loops(X, Xtr)
    IN  [raised |-> FALSE, error |-> <<>>, dists |-> d, y_pred |-> predict_labels(d, ytr, k)]

\* predict(X, k, num_loops): what the call computes and how it ends
predict(X, k, num_loops, Xtr, ytr) ==
    IF num_loops \in {0, 1, 2}
    THEN LET d == CASE num_loops = 0 -> compute_distances_no_loops(X, Xtr)
                    [] num_loops = 1 -> compute_distances_one_loop(X, Xtr)
                    [] num_loops = 2 -> compute_distances_two_loops(X, Xtr)
         IN  [raised |-> FALSE, error |-> <<>>, dists |-> d,
              y_pred |-> predict_labels(d, ytr, k)]
    ELSE [raised |-> TRUE,
          error |-> <<"ValueError", <<"Invalid value ">> \o FormatD(num_loops) \o <<" for num_loops">>>>,
          dists |-> <<>>, y_pred |-> <<>>]

KnnInit ==
    /\ knnPc = "new"
    /\ X_train = <<>>
    /\ y_train = <<>>
    /\ knnCall = <<>>
    /\ dists = <<>>
    /\ y_pred = <<>>
    /\ knnError = <<>>
    /\ nnPc = "off"
    /\ params = <<>>
    /\ nnLoss = NoCall
    /\ train = <<>>
    /\ it = 0
    /\ learning_rate = 0
    /\ loss_history = <<>>
    /\ train_acc_history = <<>>
    /\ val_acc_history = <<>>
    /\ idx = <<>>
    /\ fcPc = "off"
    /\ fc = <<>>
    /\ fcError = "None"
    /\ fcCalls = 0
    /\ fcCall = NoFCCall
    /\ fcGradIds = {}
    /\ cnn = [pc |-> "off"]
    /\ rnn = [pc |-> "off"]
    /\ lstm = [pc |-> "off"]
    /\ emb = [pc |-> "off"]
    /\ tsl = [pc |-> "off"]
    /\ cell = [pc |-> "off"]
    /\ sig = [pc |-> "off"]

\* train(X, y): memorise the data
Train(X, y) ==
    /\ knnPc = "new"
    /\ knnPc' = "trained"
    /\ X_train' = X
    /\ y_train' = y
    /\ UNCHANGED <<knnCall, dists, y_pred, knnError>>

\* a call predict(X, k, num_loops) on the trained classifier
Predict(X, k, num_loops) ==
    /\ knnPc = "trained"
    /\ LET r == predict(X, k, num_loops, X_train, y_train)
       IN  /\ knnCall' = [X |-> X, k |-> k, num_loops |-> num_loops]
           /\ knnPc' = IF r.raised THEN "raised" ELSE "returned"
           /\ knnError' = r.error
           /\ dists' = r.dists
           /\ y_pred' = r.y_pred
    /\ UNCHANGED <<X_train, y_train>>

KnnTrain ==
    /\ knnPc = "new"
    /\ \E X \in [1..NumTrain -> Vectors], y \in [1..NumTrain -> Labels] : Train(X, y)
    /\ UNCHANGED <<nnVars, fcVars, moreVars>>

KnnPredict ==
    /\ knnPc = "trained"
    /\ \E X \in [1..NumTest -> Vectors], k \in 1..NumTrain, nl \in NumLoopsValues :
        Predict(X, k, nl)
    /\ UNCHANGED <<nnVars, fcVars, moreVars>>

KnnNext == KnnTrain \/ KnnPredict

\* ================================================ TwoLayerNet (assignment 1)
\* ---------------------------------------------------------- array helpers
MatMul(A, B) ==
    Tab(LAMBDA i : Tab(LAMBDA j :
            SumSeq(Tab(LAMBDA k : A[i][k] * B[k][j], Len(B))),
        Len(B[1])), Len(A))

Transpose(A) == Tab(LAMBDA j : Tab(LAMBDA i : A[i][j], Len(A)), Len(A[1]))

\* np.sum(A, axis=0)
ColSum(A) == Tab(LAMBDA j : SumSeq(Tab(LAMBDA i : A[i][j], Len(A))), Len(A[1]))

\* A + b, the vector b broadcast over the rows of A
AddRow(A, b) == Tab(LAMBDA i : Tab(LAMBDA j : A[i][j] + b[j], Len(A[i])), Len(A))

\* np.sum(W * W)
SumSq(W) == SumSeq(Tab(LAMBDA i : SumSeq(Tab(LAMBDA j : W[i][j] * W[i][j], Len(W[i]))), Len(W)))

MatAdd(A, B) == Tab(LAMBDA i : Tab(LAMBDA j : A[i][j] + B[i][j], Len(A[i])), Len(A))
MatScale(c, A) == Tab(LAMBDA i : Tab(LAMBDA j : c * A[i][j], Len(A[i])), Len(A))
VecAdd(a, b) == Tab(LAMBDA j : a[j] + b[j], Len(a))
VecScale(c, a) == Tab(LAMBDA j : c * a[j], Len(a))

\* (M > 0) * V, element by element
MaskPositive(M, V) ==
    Tab(LAMBDA i : Tab(LAMBDA j : IF M[i][j] > 0 THEN V[i][j] ELSE 0, Len(M[i])), Len(M))

Classes == 0..(NumClasses - 1)
WeightInit == {-1, 1}
DataCoord == {0, 1}

\* __init__: small random weights, zero biases
NewParams ==
    {[W1 |-> w1, b1 |-> [h \in 1..HiddenSize |-> 0],
      W2 |-> w2, b2 |-> [c \in 1..NumClasses |-> 0]] :
        w1 \in [1..InputSize -> [1..HiddenSize -> WeightInit]],
        w2 \in [1..HiddenSize -> [1..NumClasses -> WeightInit]]}

\* the forward pass: scores of shape (N, C)
forward(X, P) ==
    LET m1 == MatMul(X, P.W1)
        bias1 == AddRow(m1, P.b1)
        relu == MaskPositive(bias1, bias1)
        m2 == MatMul(relu, P.W2)
        bias2 == AddRow(m2, P.b2)
    IN  [relu |-> relu, scores |-> bias2]

\* The softmax of the scores (exponentials, normalisation, the division by N)
\* is not computed on integers.  Its result d_bias2 = (probs - onehot) / N is
\* one of the integer matrices that have the sign pattern and the zero row
\* sums of such a matrix, in a unit of gradient that the loss shares.
SoftmaxGrads(y) ==
    {d \in [1..Len(y) -> [1..NumClasses -> (0 - MaxProb * NumClasses)..MaxProb]] :
        \A n \in 1..Len(y) :
            /\ \A c \in 1..NumClasses : (c # y[n] + 1) => d[n][c] >= 1
            /\ SumSeq(d[n]) = 0}

\* the data loss mean(-log p_true) grows with the probability mass off the
\* true class; it is modelled by that mass
data_loss(d_bias2, y) == SumSeq(Tab(LAMBDA n : 0 - d_bias2[n][y[n] + 1], Len(y)))

\* d_b1 += 2 * reg * b1 ; d_b2 += 2 * reg * b2
bias_grad(d_b, reg, b) == VecAdd(d_b, VecScale(2 * reg, b))

\* d_W += 2 * reg * W
weight_grad(d_W, reg, W) == MatAdd(d_W, MatScale(2 * reg, W))

\* loss(X, y, reg) with labels: the loss and the gradients
loss(X, y, reg, P, d_bias2) ==
    LET f == forward(X, P)
        relu == f.relu
        loss_value == data_loss(d_bias2, y) + reg * (SumSq(P.W1) + SumSq(P.W2))
        d_b2 == ColSum(d_bias2)
        d_m2 == d_bias2
        d_W2 == MatMul(Transpose(relu), d_m2)
        d_relu == MatMul(d_m2, Transpose(P.W2))
        d_bias1 == MaskPositive(relu, d_relu)
        d_b1 == ColSum(d_bias1)
        d_m1 == d_bias1
        d_W1 == MatMul(Transpose(X), d_m1)
    IN  [loss |-> loss_value,
         grads |-> [W1 |-> weight_grad(d_W1, reg, P.W1),
                    W2 |-> weight_grad(d_W2, reg, P.W2),
                    b1 |-> bias_grad(d_b1, reg, P.b1),
                    b2 |-> bias_grad(d_b2, reg, P.b2)]]

\* np.argmax(row): the first index (from 0) of the largest entry
argmax(row) ==
    CHOOSE c \in 0..(Len(row) - 1) :
        /\ \A e \in 1..Len(row) : row[e] <= row[c + 1]
        /\ \A e \in 1..c : row[e] < row[c + 1]

\* predict(X): arg-max class of the inference-mode scores
nn_predict(X, P) == LET sc == forward(X, P).scores IN Tab(LAMBDA i : argmax(sc[i]), Len(sc))

\* (predict(X) == y).mean(), as <<number equal, number of rows>>
accuracy(X, y, P) ==
    LET y_pred_nn == nn_predict(X, P)
    IN  <<Cardinality({i \in 1..Len(y) : y_pred_nn[i] = y[i]}), Len(y)>>

\* it % iterations_per_epoch == 0 with iterations_per_epoch = max(N / batch_size, 1):
\* N / batch_size is a float.  When the quotient is an integer or has a power of
\* two as reduced denominator it is exact and the remainder is zero at the
\* multiples of the quotient; otherwise the quotient is rounded and no positive
\* integer of this size is a multiple of it.
RECURSIVE GCD(_, _)
GCD(a, b) == IF b = 0 THEN a ELSE GCD(b, a % b)

RECURSIVE IsPowerOfTwo(_)
IsPowerOfTwo(q) == IF q = 1 THEN TRUE ELSE IF q % 2 = 1 THEN FALSE ELSE IsPowerOfTwo(q \div 2)

epoch_boundary(i, N, batch_size) ==
    IF N <= batch_size THEN TRUE
    ELSE LET g == GCD(N, batch_size)
             p == N \div g
             q == batch_size \div g
         IN  IF IsPowerOfTwo(q) THEN (i * q) % p = 0 ELSE i = 0

\* param += - learning_rate * grad
sgd_plus(p, lr, g) == p + lr * g

sgd(p, lr, g) == p - lr * g

sgd_update(P, lr, G) ==
    [W1 |-> Tab(LAMBDA i : Tab(LAMBDA j : sgd(P.W1[i][j], lr, G.W1[i][j]), Len(P.W1[i])), Len(P.W1)),
     W2 |-> Tab(LAMBDA i : Tab(LAMBDA j : sgd(P.W2[i][j], lr, G.W2[i][j]), Len(P.W2[i])), Len(P.W2)),
     b1 |-> Tab(LAMBDA j : sgd(P.b1[j], lr, G.b1[j]), Len(P.b1)),
     b2 |-> Tab(LAMBDA j : sgd(P.b2[j], lr, G.b2[j]), Len(P.b2))]

NNInit ==
    /\ nnPc = "idle"
    /\ params \in NewParams
    /\ nnLoss = NoCall
    /\ train = <<>>
    /\ it = 0
    /\ learning_rate = 0
    /\ loss_history = <<>>
    /\ train_acc_history = <<>>
    /\ val_acc_history = <<>>
    /\ idx = <<>>
    /\ knnPc = "off"
    /\ X_train = <<>>
    /\ y_train = <<>>
    /\ knnCall = <<>>
    /\ dists = <<>>
    /\ y_pred = <<>>
    /\ knnError = <<>>
    /\ fcPc = "off"
    /\ fc = <<>>
    /\ fcError = "None"
    /\ fcCalls = 0
    /\ fcCall = NoFCCall
    /\ fcGradIds = {}
    /\ cnn = [pc |-> "off"]
    /\ rnn = [pc |-> "off"]
    /\ lstm = [pc |-> "off"]
    /\ emb = [pc |-> "off"]
    /\ tsl = [pc |-> "off"]
    /\ cell = [pc |-> "off"]
    /\ sig = [pc |-> "off"]

DataSets(N) == [1..N -> [1..InputSize -> DataCoord]]

\* the training data of a run of train: example n is the vector of n % 2
TrainData(N) == Tab(LAMBDA n : Tab(LAMBDA d : n % 2, InputSize), N)
LabelVectors(N) == [1..N -> Classes]

\* loss(X) without labels: the scores are returned
LossScores(X) ==
    /\ nnPc = "idle"
    /\ nnLoss' = [labelled |-> FALSE, made |-> TRUE, X |-> X, params |-> params,
                  scores |-> forward(X, params).scores]
    /\ UNCHANGED <<nnPc, params, train, it, learning_rate,
                   loss_history, train_acc_history, val_acc_history, idx>>

\* loss(X, y, reg) with labels
Loss(X, y, reg, d_bias2) ==
    /\ nnPc = "idle"
    /\ LET r == loss(X, y, reg, params, d_bias2)
       IN  nnLoss' = [labelled |-> TRUE, made |-> TRUE, X |-> X, y |-> y, reg |-> reg,
                      params |-> params, d_bias2 |-> d_bias2,
                      loss |-> r.loss, grads |-> r.grads]
    /\ UNCHANGED <<nnPc, params, train, it, learning_rate,
                   loss_history, train_acc_history, val_acc_history, idx>>

\* train(...) is entered: the histories are empty, no iteration has run
TrainEnter(X, y, X_val, y_val, lr, decay, reg, num_iters, batch_size) ==
    /\ nnPc = "idle"
    /\ train = <<>>
    /\ nnPc' = "training"
    /\ train' = [X |-> X, y |-> y, X_val |-> X_val, y_val |-> y_val,
                 learning_rate |-> lr, learning_rate_decay |-> decay, reg |-> reg,
                 num_iters |-> num_iters, batch_size |-> batch_size, N |-> Len(X)]
    /\ it' = 0
    /\ learning_rate' = lr
    /\ loss_history' = <<>>
    /\ train_acc_history' = <<>>
    /\ val_acc_history' = <<>>
    /\ nnLoss' = NoCall
    /\ UNCHANGED <<params, idx>>

\* one pass through the body of the loop, with the batch indices drawn and the
\* softmax result of the batch
TrainIter(batch, d_bias2) ==
    /\ nnPc = "training"
    /\ it < train.num_iters
    /\ LET X_batch == Tab(LAMBDA b : train.X[batch[b] + 1], Len(batch))
           y_batch == Tab(LAMBDA b : train.y[batch[b] + 1], Len(batch))
           r == loss(X_batch, y_batch, train.reg, params, d_bias2)
           updated == sgd_update(params, learning_rate, r.grads)
           epoch == epoch_boundary(it, train.N, train.batch_size)
       IN  /\ idx' = batch
           /\ nnLoss' = [labelled |-> TRUE, made |-> TRUE, X |-> X_batch, y |-> y_batch,
                         reg |-> train.reg, params |-> params, d_bias2 |-> d_bias2,
                         loss |-> r.loss, grads |-> r.grads]
           /\ loss_history' = Append(loss_history, r.loss)
           /\ params' = updated
           /\ IF epoch
              THEN /\ train_acc_history' =
                          Append(train_acc_history, accuracy(X_batch, y_batch, updated))
                   /\ val_acc_history' =
                          Append(val_acc_history, accuracy(train.X_val, train.y_val, updated))
                   /\ learning_rate' = learning_rate * train.learning_rate_decay
              ELSE UNCHANGED <<train_acc_history, val_acc_history, learning_rate>>
    /\ it' = it + 1
    /\ UNCHANGED <<nnPc, train>>

\* the loop is over: the record of the histories is returned
TrainReturn ==
    /\ nnPc = "training"
    /\ it = train.num_iters
    /\ nnPc' = "returned"
    /\ UNCHANGED <<params, nnLoss, train, it, learning_rate,
                   loss_history, train_acc_history, val_acc_history, idx>>
    /\ UNCHANGED <<knnVars, fcVars, moreVars>>

NNLossScores ==
    /\ nnPc = "idle"
    /\ \E X \in DataSets(1) : LossScores(X)
    /\ UNCHANGED <<knnVars, fcVars, moreVars>>

NNLoss ==
    /\ nnPc = "idle"
    /\ \E X \in DataSets(1), y \in LabelVectors(1), reg \in 0..MaxReg :
          \E d \in SoftmaxGrads(y) : Loss(X, y, reg, d)
    /\ UNCHANGED <<knnVars, fcVars, moreVars>>

NNTrainEnter ==
    /\ nnPc = "idle"
    /\ train = <<>>
    /\ \E N \in 1..MaxN, batch_size \in 1..MaxBatch, num_iters \in 0..MaxIters,
          reg \in 0..MaxReg :
          \E y \in LabelVectors(N) :
             TrainEnter(TrainData(N), y, TrainData(1), <<0>>, 1, 2, reg,
                        num_iters, batch_size)
    /\ UNCHANGED <<knnVars, fcVars, moreVars>>

NNTrainIter ==
    /\ nnPc = "training"
    /\ it < train.num_iters
    /\ \E batch \in [1..train.batch_size -> 0..(train.N - 1)] :
          \E d \in SoftmaxGrads(Tab(LAMBDA b : train.y[batch[b] + 1], Len(batch))) :
             TrainIter(batch, d)
    /\ UNCHANGED <<knnVars, fcVars, moreVars>>

NNNext == NNLossScores \/ NNLoss \/ NNTrainEnter \/ NNTrainIter \/ TrainReturn

\* ========================================== FullyConnectedNet (assignment 2)
Normalizations == {"None", "batchnorm", "layernorm"}

\* the keep-probability of dropout, in percent: 100 is dropout = 1
Dropouts == {50, 100}
Seeds == {"None", "seed"}
InputDims == {3}
NumClassesFC == {2}
HiddenDims == UNION {[1..n -> 1..MaxWidth] : n \in 0..MaxHidden}
HiddenKinds == {"list", "ndarray"}

\* 'W' + str(i): the name of a parameter
Key(prefix, i) == <<prefix, FormatD(i)>>

\* dimensions = np.hstack((input_dim, hidden_dims, num_classes)): the integers
\* in a row; an empty list is an empty array of floats and makes the row float
hstack(input_dim, hidden_dims, kind, num_classes) ==
    [vals |-> <<input_dim>> \o hidden_dims \o <<num_classes>>,
     dtype |-> IF Len(hidden_dims) = 0 /\ kind = "list" THEN "float64" ELSE "int64"]

init_params_norm_always(dimensions, num_layers, n_hidden, normalization) ==
    LET wb == {Key("W", i) : i \in 1..num_layers} \cup {Key("b", i) : i \in 1..num_layers}
        gb == {Key("gamma", i) : i \in 1..n_hidden} \cup {Key("beta", i) : i \in 1..n_hidden}
        index(k) == CHOOSE i \in 1..num_layers : FormatD(i) = k[2]
    IN  [k \in wb \cup gb |->
            CASE k[1] = "W" -> [shape |-> <<dimensions[index(k)], dimensions[index(k) + 1]>>,
                                fill |-> "randn"]
              [] k[1] = "b" -> [shape |-> <<dimensions[index(k) + 1]>>, fill |-> "zeros"]
              [] k[1] = "gamma" -> [shape |-> <<dimensions[index(k) + 1]>>, fill |-> "ones"]
              [] k[1] = "beta" -> [shape |-> <<dimensions[index(k) + 1]>>, fill |-> "zeros"]]

\* the keys and the initial arrays of self.params
init_params(dimensions, num_layers, n_hidden, normalization) ==
    LET wb == {Key("W", i) : i \in 1..num_layers} \cup {Key("b", i) : i \in 1..num_layers}
        gb == IF normalization # "None"
              THEN {Key("gamma", i) : i \in 1..n_hidden} \cup {Key("beta", i) : i \in 1..n_hidden}
              ELSE {}
        index(k) == CHOOSE i \in 1..num_layers : FormatD(i) = k[2]
    IN  [k \in wb \cup gb |->
            CASE k[1] = "W" -> [shape |-> <<dimensions[index(k)], dimensions[index(k) + 1]>>,
                                fill |-> "randn"]
              [] k[1] = "b" -> [shape |-> <<dimensions[index(k) + 1]>>, fill |-> "zeros"]
              [] k[1] = "gamma" -> [shape |-> <<dimensions[index(k) + 1]>>, fill |-> "ones"]
              [] k[1] = "beta" -> [shape |-> <<dimensions[index(k) + 1]>>, fill |-> "zeros"]]

\* self.dropout_param
init_dropout_param(use_dropout, dropout, seed) ==
    IF ~use_dropout THEN <<>>
    ELSE IF seed # "None" THEN [mode |-> "train", p |-> dropout, seed |-> seed]
         ELSE [mode |-> "train", p |-> dropout]

\* self.bn_params: a new dictionary for every hidden layer
init_bn_params(normalization, num_layers) ==
    IF normalization = "batchnorm"
    THEN Tab(LAMBDA i : [id |-> i, dict |-> [mode |-> "train"]], num_layers - 1)
    ELSE IF normalization = "layernorm"
         THEN Tab(LAMBDA i : [id |-> i, dict |-> <<>>], num_layers - 1)
         ELSE <<>>

\* FullyConnectedNet.__init__
new_net(hidden_dims, kind, input_dim, num_classes, dropout, normalization, seed) ==
    LET use_dropout == dropout # 100
        num_layers == 1 + Len(hidden_dims)
        dimensions == hstack(input_dim, hidden_dims, kind, num_classes)
    IN  IF dimensions.dtype # "int64"
        THEN [raised |-> TRUE, error |-> "TypeError"]
        ELSE [raised |-> FALSE,
              normalization |-> normalization,
              dropout |-> dropout,
              use_dropout |-> use_dropout,
              num_layers |-> num_layers,
              hidden_dims |-> hidden_dims,
              dimensions |-> dimensions.vals,
              params |-> init_params(dimensions.vals, num_layers, Len(hidden_dims), normalization),
              dropout_param |-> init_dropout_param(use_dropout, dropout, seed),
              bn_params |-> init_bn_params(normalization, num_layers)]

\* loss, lines 189-193, without the assignments
keep_modes(net, mode) == [dropout_param |-> net.dropout_param, bn_params |-> net.bn_params]

\* loss, lines 189-193: the mode is written into dropout_param and bn_params
set_modes(net, mode) ==
    [dropout_param |-> IF net.use_dropout
                       THEN [net.dropout_param EXCEPT !.mode = mode]
                       ELSE net.dropout_param,
     bn_params |-> IF net.normalization = "batchnorm"
                   THEN Tab(LAMBDA i : [net.bn_params[i] EXCEPT !.dict.mode = mode],
                            Len(net.bn_params))
                   ELSE net.bn_params]

Prim(op, layer, key, mode) == [op |-> op, cache |-> <<layer, key>>, mode |-> mode]

layer_forward_dropout_always(net, m, layer_num) ==
    <<Prim("affine_forward", layer_num, "affine", "-")>>
    \o (IF net.normalization = "batchnorm"
        THEN <<Prim("batchnorm_forward", layer_num, "batchnorm",
                    m.bn_params[layer_num + 1].dict.mode)>>
        ELSE IF net.normalization = "layernorm"
             THEN <<Prim("layernorm_forward", layer_num, "layernorm", "-")>>
             ELSE <<>>)
    \o <<Prim("relu_forward", layer_num, "relu", "-")>>
    \o <<Prim("dropout_forward", layer_num, "dropout", "train")>>

\* _layer_forward(x, layer_num): the forward primitives of one hidden layer,
\* each with the entry of cache[layer_num] it fills and the mode it is given
layer_forward(net, m, layer_num) ==
    <<Prim("affine_forward", layer_num, "affine", "-")>>
    \o (IF net.normalization = "batchnorm"
        THEN <<Prim("batchnorm_forward", layer_num, "batchnorm",
                    m.bn_params[layer_num + 1].dict.mode)>>
        ELSE IF net.normalization = "layernorm"
             THEN <<Prim("layernorm_forward", layer_num, "layernorm", "-")>>
             ELSE <<>>)
    \o <<Prim("relu_forward", layer_num, "relu", "-")>>
    \o (IF net.use_dropout
        THEN <<Prim("dropout_forward", layer_num, "dropout", m.dropout_param.mode)>>
        ELSE <<>>)

\* for i in range(self.num_layers - 1): ... ; then the last affine_forward
RECURSIVE forward_layers(_, _, _)
forward_layers(net, m, i) ==
    IF i = net.num_layers - 1 THEN <<>>
    ELSE layer_forward(net, m, i) \o forward_layers(net, m, i + 1)

forward_pass(net, m) ==
    forward_layers(net, m, 0)
    \o <<Prim("affine_forward", net.num_layers - 1, "affine", "-")>>

BPrim(op, layer, key) == [op |-> op, cache |-> <<layer, key>>]

layer_backward_relu_last(net, i) ==
    (IF net.use_dropout THEN <<BPrim("dropout_backward", i, "dropout")>> ELSE <<>>)
    \o (IF net.normalization = "batchnorm"
        THEN <<BPrim("batchnorm_backward_alt", i, "batchnorm")>>
        ELSE IF net.normalization = "layernorm"
             THEN <<BPrim("layernorm_backward", i, "layernorm")>>
             ELSE <<>>)
    \o <<BPrim("relu_backward", i, "relu")>>
    \o <<BPrim("affine_backward", i, "affine")>>

\* _layer_backward(dout, cache[i]): the backward primitives of one hidden layer
layer_backward(net, i) ==
    (IF net.use_dropout THEN <<BPrim("dropout_backward", i, "dropout")>> ELSE <<>>)
    \o <<BPrim("relu_backward", i, "relu")>>
    \o (IF net.normalization = "batchnorm"
        THEN <<BPrim("batchnorm_backward_alt", i, "batchnorm")>>
        ELSE IF net.normalization = "layernorm"
             THEN <<BPrim("layernorm_backward", i, "layernorm")>>
             ELSE <<>>)
    \o <<BPrim("affine_backward", i, "affine")>>

\* for i in range(self.num_layers - 2, -1, -1)
RECURSIVE backward_layers(_, _)
backward_layers(net, i) ==
    IF i < 0 THEN <<>> ELSE layer_backward(net, i) \o backward_layers(net, i - 1)

\* affine_backward(dout, cache[-1]['affine']), then the hidden layers
backward_pass(net) ==
    <<BPrim("affine_backward", net.num_layers - 1, "affine")>>
    \o backward_layers(net, net.num_layers - 2)

grad_keys_no_beta(net) ==
    {Key("W", i) : i \in 1..net.num_layers} \cup {Key("b", i) : i \in 1..net.num_layers}
    \cup (IF net.normalization # "None"
          THEN {Key("gamma", i + 1) : i \in 0..(net.num_layers - 2)}
          ELSE {})

\* the keys assigned in grads, lines 216-225
grad_keys(net) ==
    {Key("W", net.num_layers), Key("b", net.num_layers)}
    \cup {Key("W", i + 1) : i \in 0..(net.num_layers - 2)}
    \cup {Key("b", i + 1) : i \in 0..(net.num_layers - 2)}
    \cup (IF net.normalization # "None"
          THEN {Key("gamma", i + 1) : i \in 0..(net.num_layers - 2)}
               \cup {Key("beta", i + 1) : i \in 0..(net.num_layers - 2)}
          ELSE {})

FCInit ==
    /\ fcPc = "new"
    /\ fc = <<>>
    /\ fcError = "None"
    /\ fcCalls = 0
    /\ fcCall = NoFCCall
    /\ fcGradIds = {}
    /\ knnPc = "off"
    /\ X_train = <<>>
    /\ y_train = <<>>
    /\ knnCall = <<>>
    /\ dists = <<>>
    /\ y_pred = <<>>
    /\ knnError = <<>>
    /\ nnPc = "off"
    /\ params = <<>>
    /\ nnLoss = NoCall
    /\ train = <<>>
    /\ it = 0
    /\ learning_rate = 0
    /\ loss_history = <<>>
    /\ train_acc_history = <<>>
    /\ val_acc_history = <<>>
    /\ idx = <<>>
    /\ cnn = [pc |-> "off"]
    /\ rnn = [pc |-> "off"]
    /\ lstm = [pc |-> "off"]
    /\ emb = [pc |-> "off"]
    /\ tsl = [pc |-> "off"]
    /\ cell = [pc |-> "off"]
    /\ sig = [pc |-> "off"]

\* FullyConnectedNet(hidden_dims, ...)
Construct(hidden_dims, kind, input_dim, num_classes, dropout, normalization, seed) ==
    /\ fcPc = "new"
    /\ LET net == new_net(hidden_dims, kind, input_dim, num_classes, dropout,
                          normalization, seed)
       IN  IF net.raised
           THEN /\ fcPc' = "raised"
                /\ fcError' = net.error
                /\ fc' = [hidden_dims |-> hidden_dims, kind |-> kind]
           ELSE /\ fcPc' = "ready"
                /\ fcError' = "None"
                /\ fc' = net
    /\ UNCHANGED <<fcCalls, fcCall, fcGradIds>>

\* loss(X, y): labelled says whether y was supplied
FCLossCall(labelled) ==
    /\ fcPc = "ready"
    /\ fcCalls < MaxCalls
    /\ LET mode == IF labelled THEN "train" ELSE "test"
           m == set_modes(fc, mode)
           net == [fc EXCEPT !.dropout_param = m.dropout_param, !.bn_params = m.bn_params]
           fwd == forward_pass(net, m)
       IN  /\ fc' = net
           /\ fcCalls' = fcCalls + 1
           /\ IF ~labelled
              THEN /\ fcCall' = [made |-> TRUE, labelled |-> FALSE, forward |-> fwd,
                                 backward |-> <<>>, returns |-> <<"scores">>]
                   /\ UNCHANGED fcGradIds
              ELSE /\ fcCall' = [made |-> TRUE, labelled |-> TRUE, forward |-> fwd,
                                 backward |-> backward_pass(net),
                                 returns |-> <<"loss", "grads">>,
                                 grads |-> grad_keys(net),
                                 grads_id |-> fcCalls + 1]
                   /\ fcGradIds' = fcGradIds \cup {fcCalls + 1}
    /\ UNCHANGED <<fcPc, fcError>>

FCConstruct ==
    /\ fcPc = "new"
    /\ \E hidden_dims \in HiddenDims, kind \in HiddenKinds, input_dim \in InputDims,
          num_classes \in NumClassesFC, dropout \in Dropouts,
          normalization \in Normalizations, seed \in Seeds :
          Construct(hidden_dims, kind, input_dim, num_classes, dropout, normalization, seed)
    /\ UNCHANGED <<knnVars, nnVars, moreVars>>

FCLoss ==
    /\ fcPc = "ready"
    /\ \E labelled \in BOOLEAN : FCLossCall(labelled)
    /\ UNCHANGED <<knnVars, nnVars, moreVars>>

FCNext == FCConstruct \/ FCLoss

\* =========================================== ThreeLayerConvNet (assignment 2)
Channels == {3}
HiddenDimsCNN == {2}
NumClassesCNN == {2}

\* conv_forward: the shape (N, F, H', W') of its output for an input of shape
\* (N, C, H, W) and filters of shape (F, C, HH, WW):
\* H' = 1 + (H + 2 * pad - HH) / stride, W' likewise
conv_forward_shape(x_shape, w_shape, conv_param) ==
    <<x_shape[1], w_shape[1],
      1 + (x_shape[3] + 2 * conv_param.pad - w_shape[3]) \div conv_param.stride,
      1 + (x_shape[4] + 2 * conv_param.pad - w_shape[4]) \div conv_param.stride>>

\* max_pool_forward: the shape of its output, H' = 1 + (H - pool_height) / stride
max_pool_forward_shape(x_shape, pool_param) ==
    <<x_shape[1], x_shape[2],
      1 + (x_shape[3] - pool_param.pool_height) \div pool_param.stride,
      1 + (x_shape[4] - pool_param.pool_width) \div pool_param.stride>>

\* affine_forward reshapes its input to (N, -1): the width of a row
flat_width(x_shape) == x_shape[2] * x_shape[3] * x_shape[4]

\* ThreeLayerConvNet.__init__: the fields and the shapes of the parameters
new_cnn(input_dim, num_filters, filter_size, hidden_dim, num_classes) ==
    LET C == input_dim[1]
        H == input_dim[2]
        W == input_dim[3]
        pool_size == 2
        hidden_layer_input == num_filters * (H \div pool_size) * (W \div pool_size)
    IN  [C |-> C, H |-> H, W |-> W, pool_size |-> pool_size,
         params |-> [W1 |-> <<num_filters, C, filter_size, filter_size>>,
                     b1 |-> <<num_filters>>,
                     W2 |-> <<hidden_layer_input, hidden_dim>>,
                     b2 |-> <<hidden_dim>>,
                     W3 |-> <<hidden_dim, num_classes>>,
                     b3 |-> <<num_classes>>]]

\* ThreeLayerConvNet.loss on N images of the shape the network was built for:
\* the parameters of the convolution and of the pooling, the shapes along the
\* forward pass, and what the call returns or raises
cnn_loss(net, N, labelled) ==
    LET W1 == net.params.W1
        W2 == net.params.W2
        filter_size == W1[3]
        conv_param == [stride |-> 1, pad |-> (filter_size - 1) \div 2]
        pool_param == [pool_height |-> 2, pool_width |-> 2, stride |-> 2]
        conv == conv_forward_shape(<<N, net.C, net.H, net.W>>, W1, conv_param)
        pool == max_pool_forward_shape(conv, pool_param)
        flat == flat_width(pool)
    IN  [labelled |-> labelled, N |-> N, filter_size |-> filter_size,
         conv_param |-> conv_param, pool_param |-> pool_param,
         conv |-> conv, pool |-> pool, flat |-> flat,
         raised |-> flat # W2[1],
         returns |-> IF flat # W2[1] THEN <<"ValueError">>
                     ELSE IF labelled THEN <<"loss", "grads">> ELSE <<"scores">>]

CnnInit ==
    /\ cnn = [pc |-> "new"]
    /\ knnPc = "off"
    /\ X_train = <<>>
    /\ y_train = <<>>
    /\ knnCall = <<>>
    /\ dists = <<>>
    /\ y_pred = <<>>
    /\ knnError = <<>>
    /\ nnPc = "off"
    /\ params = <<>>
    /\ nnLoss = NoCall
    /\ train = <<>>
    /\ it = 0
    /\ learning_rate = 0
    /\ loss_history = <<>>
    /\ train_acc_history = <<>>
    /\ val_acc_history = <<>>
    /\ idx = <<>>
    /\ fcPc = "off"
    /\ fc = <<>>
    /\ fcError = "None"
    /\ fcCalls = 0
    /\ fcCall = NoFCCall
    /\ fcGradIds = {}
    /\ rnn = [pc |-> "off"]
    /\ lstm = [pc |-> "off"]
    /\ emb = [pc |-> "off"]
    /\ tsl = [pc |-> "off"]
    /\ cell = [pc |-> "off"]
    /\ sig = [pc |-> "off"]

\* ThreeLayerConvNet(input_dim, num_filters, filter_size, hidden_dim, num_classes)
CnnConstruct ==
    /\ cnn.pc = "new"
    /\ \E C \in Channels, H \in 2..MaxSide, W \in 2..MaxSide, num_filters \in 1..MaxFilters,
          filter_size \in 1..MaxFilterSize, hidden_dim \in HiddenDimsCNN,
          num_classes \in NumClassesCNN :
          cnn' = [pc |-> "ready",
                  net |-> new_cnn(<<C, H, W>>, num_filters, filter_size, hidden_dim,
                                  num_classes)]
    /\ UNCHANGED <<knnVars, nnVars, fcVars, rnn, lstm, emb, tsl, cell, sig>>

\* loss(X, y) with X of shape (N, C, H, W)
CnnLoss ==
    /\ cnn.pc = "ready"
    /\ \E N \in 1..MaxImages, labelled \in BOOLEAN :
          LET r == cnn_loss(cnn.net, N, labelled)
          IN  cnn' = [pc |-> IF r.raised THEN "raised" ELSE "returned",
                      net |-> cnn.net, call |-> r]
    /\ UNCHANGED <<knnVars, nnVars, fcVars, rnn, lstm, emb, tsl, cell, sig>>

CnnNext == CnnConstruct \/ CnnLoss

\* ================================================= rnn_layers (assignment 3)
\* The arrays of rnn_layers have the shapes (N, T, D) and (N, T, H).  The model
\* follows them along the time axis: N = D = H = 1, so that x, h and dh are
\* sequences over the timesteps and Wx, Wh, b are single entries.

\* np.tanh on the integer grid: the value rounded to the nearest integer
tanh(v) == IF v > 0 THEN 1 ELSE IF v < 0 THEN -1 ELSE 0

\* sigmoid on the integer grid: the value rounded to the nearest integer
sigmoid(v) == IF v >= 0 THEN 1 ELSE 0

Inputs == {0, 1}
States == {-1, 0, 1}
Weights == {-1, 1}
Biases == {0}
Grads == {-1, 0, 1}
TimeSeries(S) == UNION {[1..T -> S] : T \in 0..MaxT}

zeros(n) == Tab(LAMBDA t : 0, n)

\* Arrays are objects: the name of the array a local is bound to tells
\* whether a write through the local is seen by the caller. "dh" and
\* "dnext_c" are the caller's arrays, "new" is an array made by the callee.

\* dhcopy = dh, dc = dnext_c: the local is bound to the caller's array
same_array(a) == a

\* np.copy(a): a new array with the content of a
np_copy(a) == "new"

rnn_step_forward(x, prev_h, Wx, Wh, b) ==
    LET lin == x * Wx + prev_h * Wh + b
    IN  [next_h |-> tanh(lin),
         cache |-> [lin |-> lin, x |-> x, prev_h |-> prev_h, Wx |-> Wx, Wh |-> Wh]]

rnn_step_backward(dnext_h, cache) ==
    LET dlin == (1 - tanh(cache.lin) * tanh(cache.lin)) * dnext_h
    IN  [dx |-> dlin * cache.Wx,
         dprev_h |-> dlin * cache.Wh,
         dWx |-> cache.x * dlin,
         dWh |-> cache.prev_h * dlin,
         db |-> dlin]

\* dhcopy[:, i - 1, :] += t2
flow_overwrite(dh_before, t2) == t2

flow_into(dh_before, t2) == dh_before + t2

RnnInit ==
    /\ rnn = [pc |-> "idle"]
    /\ knnPc = "off"
    /\ X_train = <<>>
    /\ y_train = <<>>
    /\ knnCall = <<>>
    /\ dists = <<>>
    /\ y_pred = <<>>
    /\ knnError = <<>>
    /\ nnPc = "off"
    /\ params = <<>>
    /\ nnLoss = NoCall
    /\ train = <<>>
    /\ it = 0
    /\ learning_rate = 0
    /\ loss_history = <<>>
    /\ train_acc_history = <<>>
    /\ val_acc_history = <<>>
    /\ idx = <<>>
    /\ fcPc = "off"
    /\ fc = <<>>
    /\ fcError = "None"
    /\ fcCalls = 0
    /\ fcCall = NoFCCall
    /\ fcGradIds = {}
    /\ cnn = [pc |-> "off"]
    /\ lstm = [pc |-> "off"]
    /\ emb = [pc |-> "off"]
    /\ tsl = [pc |-> "off"]
    /\ cell = [pc |-> "off"]
    /\ sig = [pc |-> "off"]

\* rnn_forward(x, h0, Wx, Wh, b) up to the loop: the shapes, the empty cache,
\* h of zeros, and the first step, which reads x[:, 0, :] and writes h[:, 0, :]
RnnForward(x, h0, Wx, Wh, b) ==
    /\ rnn.pc = "idle"
    /\ LET T == Len(x)
           args == [x |-> x, h0 |-> h0, Wx |-> Wx, Wh |-> Wh, b |-> b, T |-> T]
       IN  IF T = 0
           THEN rnn' = [pc |-> "raised", error |-> "IndexError", args |-> args]
           ELSE LET s == rnn_step_forward(x[1], h0, Wx, Wh, b)
                IN  rnn' = [pc |-> "forward", args |-> args,
                            h |-> [zeros(T) EXCEPT ![1] = s.next_h],
                            cache |-> <<s.cache>>, i |-> 1]

\* for i in range(1, T): one pass through the body
RnnForwardIter ==
    /\ rnn.pc = "forward"
    /\ rnn.i < rnn.args.T
    /\ LET i == rnn.i
           s == rnn_step_forward(rnn.args.x[i + 1], rnn.h[i], rnn.args.Wx, rnn.args.Wh,
                                 rnn.args.b)
       IN  rnn' = [rnn EXCEPT !.h[i + 1] = s.next_h,
                              !.cache = Append(rnn.cache, s.cache),
                              !.i = i + 1]
    /\ UNCHANGED <<knnVars, nnVars, fcVars, cnn, lstm, emb, tsl, cell, sig>>

\* return h, cache
RnnForwardReturn ==
    /\ rnn.pc = "forward"
    /\ rnn.i = rnn.args.T
    /\ rnn' = [pc |-> "forward_done", args |-> rnn.args, h |-> rnn.h, cache |-> rnn.cache]
    /\ UNCHANGED <<knnVars, nnVars, fcVars, cnn, lstm, emb, tsl, cell, sig>>

\* rnn_backward(dh, cache) up to the loop, with the cache rnn_forward returned
RnnBackward(dh) ==
    /\ rnn.pc = "forward_done"
    /\ LET T == Len(dh)
       IN  rnn' = [pc |-> "backward", args |-> rnn.args, h |-> rnn.h, cache |-> rnn.cache,
                   dh |-> dh, T |-> T, dWx |-> 0, dWh |-> 0, db |-> 0,
                   dx |-> zeros(T), dhcopy |-> dh, dh0 |-> <<>>,
                   i |-> T - 1, calls |-> <<>>,
                   dhcopy_array |-> np_copy("dh"), dh_given |-> dh,
                   round |-> 1, first |-> <<>>]

\* the caller calls rnn_backward(dh, cache) once more, with the same array dh
\* and the same cache; first keeps what the first call returned
RnnBackwardAgain ==
    /\ rnn.pc = "backward_done"
    /\ rnn.round = 1
    /\ rnn' = [rnn EXCEPT
                 !.pc = "backward",
                 !.dWx = 0, !.dWh = 0, !.db = 0,
                 !.dx = zeros(rnn.T), !.dhcopy = rnn.dh, !.dh0 = <<>>,
                 !.i = rnn.T - 1, !.calls = <<>>,
                 !.dhcopy_array = np_copy("dh"),
                 !.round = 2,
                 !.first = [dx |-> rnn.dx, dh0 |-> rnn.dh0, dWx |-> rnn.dWx,
                            dWh |-> rnn.dWh, db |-> rnn.db]]
    /\ UNCHANGED <<knnVars, nnVars, fcVars, cnn, lstm, emb, tsl, cell, sig>>

\* for i in reversed(range(T)): one pass through the body; calls keeps what
\* each rnn_step_backward was given and what it returned. The write to
\* dhcopy[:, i - 1, :] changes dh as well when both names are one array.
RnnBackwardIter ==
    /\ rnn.pc = "backward"
    /\ rnn.i >= 0
    /\ LET i == rnn.i
           t == rnn_step_backward(rnn.dhcopy[i + 1], rnn.cache[i + 1])
           written == IF i = 0 THEN rnn.dhcopy
                      ELSE [rnn.dhcopy EXCEPT ![i] = flow_into(rnn.dhcopy[i], t.dprev_h)]
       IN  rnn' = [rnn EXCEPT
                     !.dx[i + 1] = t.dx,
                     !.dWx = rnn.dWx + t.dWx,
                     !.dWh = rnn.dWh + t.dWh,
                     !.db = rnn.db + t.db,
                     !.dh0 = IF i = 0 THEN <<t.dprev_h>> ELSE rnn.dh0,
                     !.dhcopy = written,
                     !.dh = IF rnn.dhcopy_array = "dh" THEN written ELSE rnn.dh,
                     !.i = i - 1,
                     !.calls = Append(rnn.calls,
                                      [t |-> i, dnext_h |-> rnn.dhcopy[i + 1], returned |-> t])]
    /\ UNCHANGED <<knnVars, nnVars, fcVars, cnn, lstm, emb, tsl, cell, sig>>

\* return dx, dh0, dWx, dWh, db
RnnBackwardReturn ==
    /\ rnn.pc = "backward"
    /\ rnn.i < 0
    /\ rnn' = [rnn EXCEPT !.pc = "backward_done"]
    /\ UNCHANGED <<knnVars, nnVars, fcVars, cnn, lstm, emb, tsl, cell, sig>>

RnnForwardCall ==
    /\ rnn.pc = "idle"
    /\ \E x \in TimeSeries(Inputs), h0 \in States, Wx \in Weights, Wh \in Weights, b \in Biases :
          RnnForward(x, h0, Wx, Wh, b)
    /\ UNCHANGED <<knnVars, nnVars, fcVars, cnn, lstm, emb, tsl, cell, sig>>

RnnBackwardCall ==
    /\ rnn.pc = "forward_done"
    /\ \E dh \in [1..rnn.args.T -> Grads] : RnnBackward(dh)
    /\ UNCHANGED <<knnVars, nnVars, fcVars, cnn, lstm, emb, tsl, cell, sig>>

RnnNext ==
    \/ RnnForwardCall
    \/ RnnForwardIter
    \/ RnnForwardReturn
    \/ RnnBackwardCall
    \/ RnnBackwardIter
    \/ RnnBackwardReturn
    \/ RnnBackwardAgain

\* ---------------------------------------------------------------- the LSTM
\* Wx, Wh and b hold the four gates i, f, o, g side by side: sequences of 4
GateWeightsX == [1..4 -> Weights]
GateWeightsH == {<<1, 1, 1, 1>>, <<-1, -1, -1, -1>>}
GateBiases == {<<0, 0, 0, 0>>}
LstmStates == {0, 1}
LstmGrads == {0, 1}

Dot4(a, w) == a[1] * w[1] + a[2] * w[2] + a[3] * w[3] + a[4] * w[4]
Scale4(c, a) == <<c * a[1], c * a[2], c * a[3], c * a[4]>>
Add4(a, b) == <<a[1] + b[1], a[2] + b[2], a[3] + b[3], a[4] + b[4]>>

lstm_step_forward(x, prev_h, prev_c, Wx, Wh, b) ==
    LET A == Add4(Add4(Scale4(x, Wx), Scale4(prev_h, Wh)), b)
        i == sigmoid(A[1])
        f == sigmoid(A[2])
        o == sigmoid(A[3])
        g == tanh(A[4])
        next_c == f * prev_c + i * g
        next_h == o * tanh(next_c)
    IN  [next_h |-> next_h, next_c |-> next_c,
         cache |-> [i |-> i, f |-> f, o |-> o, g |-> g, prev_c |-> prev_c,
                    next_c |-> next_c, x |-> x, Wx |-> Wx, prev_h |-> prev_h,
                    Wh |-> Wh, b |-> b, A |-> A]]

lstm_step_backward(dnext_h, dnext_c, cache) ==
    LET A == cache.A
        dc_array == np_copy("dnext_c")
        dc == dnext_c + dnext_h * cache.o * (1 - tanh(cache.next_c) * tanh(cache.next_c))
        do == dnext_h * tanh(cache.next_c)
        df == dc * cache.prev_c
        dprev_c == dc * cache.f
        di == dc * cache.g
        dg == dc * cache.i
        dai == di * (1 - sigmoid(A[1])) * sigmoid(A[1])
        daf == df * (1 - sigmoid(A[2])) * sigmoid(A[2])
        dao == do * (1 - sigmoid(A[3])) * sigmoid(A[3])
        dag == dg * (1 - tanh(A[4]) * tanh(A[4]))
        dA == <<dai, daf, dao, dag>>
    IN  [dx |-> Dot4(dA, cache.Wx),
         dprev_h |-> Dot4(dA, cache.Wh),
         dprev_c |-> dprev_c,
         dWx |-> Scale4(cache.x, dA),
         dWh |-> Scale4(cache.prev_h, dA),
         db |-> dA,
         after |-> [dnext_c |-> IF dc_array = "dnext_c" THEN dc ELSE dnext_c]]

\* dc = t3
carry_c_dropped(dc, t3) == dc

carry_c(dc, t3) == t3

LstmInit ==
    /\ lstm = [pc |-> "idle"]
    /\ knnPc = "off"
    /\ X_train = <<>>
    /\ y_train = <<>>
    /\ knnCall = <<>>
    /\ dists = <<>>
    /\ y_pred = <<>>
    /\ knnError = <<>>
    /\ nnPc = "off"
    /\ params = <<>>
    /\ nnLoss = NoCall
    /\ train = <<>>
    /\ it = 0
    /\ learning_rate = 0
    /\ loss_history = <<>>
    /\ train_acc_history = <<>>
    /\ val_acc_history = <<>>
    /\ idx = <<>>
    /\ fcPc = "off"
    /\ fc = <<>>
    /\ fcError = "None"
    /\ fcCalls = 0
    /\ fcCall = NoFCCall
    /\ fcGradIds = {}
    /\ cnn = [pc |-> "off"]
    /\ rnn = [pc |-> "off"]
    /\ emb = [pc |-> "off"]
    /\ tsl = [pc |-> "off"]
    /\ cell = [pc |-> "off"]
    /\ sig = [pc |-> "off"]

\* lstm_forward(x, h0, Wx, Wh, b) up to the loop: the cell state of zeros, h of
\* zeros, and the first step
LstmForward(x, h0, Wx, Wh, b) ==
    /\ lstm.pc = "idle"
    /\ LET T == Len(x)
           args == [x |-> x, h0 |-> h0, Wx |-> Wx, Wh |-> Wh, b |-> b, T |-> T]
       IN  IF T = 0
           THEN lstm' = [pc |-> "raised", error |-> "IndexError", args |-> args]
           ELSE LET s == lstm_step_forward(x[1], h0, 0, Wx, Wh, b)
                IN  lstm' = [pc |-> "forward", args |-> args,
                             h |-> [zeros(T) EXCEPT ![1] = s.next_h], c |-> s.next_c,
                             cache |-> <<s.cache>>, i |-> 1]

\* for i in range(1, T): one pass through the body
LstmForwardIter ==
    /\ lstm.pc = "forward"
    /\ lstm.i < lstm.args.T
    /\ LET i == lstm.i
           s == lstm_step_forward(lstm.args.x[i + 1], lstm.h[i], lstm.c, lstm.args.Wx,
                                  lstm.args.Wh, lstm.args.b)
       IN  lstm' = [lstm EXCEPT !.h[i + 1] = s.next_h,
                                !.c = s.next_c,
                                !.cache = Append(lstm.cache, s.cache),
                                !.i = i + 1]
    /\ UNCHANGED <<knnVars, nnVars, fcVars, cnn, rnn, emb, tsl, cell, sig>>

\* return h, cache: the cell state is not returned
LstmForwardReturn ==
    /\ lstm.pc = "forward"
    /\ lstm.i = lstm.args.T
    /\ lstm' = [pc |-> "forward_done", args |-> lstm.args, h |-> lstm.h,
                cache |-> lstm.cache]
    /\ UNCHANGED <<knnVars, nnVars, fcVars, cnn, rnn, emb, tsl, cell, sig>>

\* lstm_backward(dh, cache) up to the loop, with the cache lstm_forward returned
LstmBackward(dh) ==
    /\ lstm.pc = "forward_done"
    /\ LET T == Len(dh)
       IN  lstm' = [pc |-> "backward", args |-> lstm.args, h |-> lstm.h,
                    cache |-> lstm.cache, dh |-> dh, T |-> T,
                    dWx |-> <<0, 0, 0, 0>>, dWh |-> <<0, 0, 0, 0>>, db |-> <<0, 0, 0, 0>>,
                    dx |-> zeros(T), dc |-> 0, dhcopy |-> dh, dh0 |-> <<>>,
                    i |-> T - 1, calls |-> <<>>,
                    dhcopy_array |-> np_copy("dh"), dh_given |-> dh,
                    round |-> 1, first |-> <<>>]

\* the caller calls lstm_backward(dh, cache) once more, with the same array
\* dh and the same cache; first keeps what the first call returned
LstmBackwardAgain ==
    /\ lstm.pc = "backward_done"
    /\ lstm.round = 1
    /\ lstm' = [lstm EXCEPT
                  !.pc = "backward",
                  !.dWx = <<0, 0, 0, 0>>, !.dWh = <<0, 0, 0, 0>>, !.db = <<0, 0, 0, 0>>,
                  !.dx = zeros(lstm.T), !.dc = 0, !.dhcopy = lstm.dh, !.dh0 = <<>>,
                  !.i = lstm.T - 1, !.calls = <<>>,
                  !.dhcopy_array = np_copy("dh"),
                  !.round = 2,
                  !.first = [dx |-> lstm.dx, dh0 |-> lstm.dh0, dWx |-> lstm.dWx,
                             dWh |-> lstm.dWh, db |-> lstm.db]]
    /\ UNCHANGED <<knnVars, nnVars, fcVars, cnn, rnn, emb, tsl, cell, sig>>

\* for i in reversed(range(T)): one pass through the body; calls keeps what
\* each lstm_step_backward was given and what it returned. The write to
\* dhcopy[:, i - 1, :] changes dh as well when both names are one array.
LstmBackwardIter ==
    /\ lstm.pc = "backward"
    /\ lstm.i >= 0
    /\ LET i == lstm.i
           t == lstm_step_backward(lstm.dhcopy[i + 1], lstm.dc, lstm.cache[i + 1])
           written == IF i = 0 THEN lstm.dhcopy
                      ELSE [lstm.dhcopy EXCEPT ![i] = lstm.dhcopy[i] + t.dprev_h]
       IN  lstm' = [lstm EXCEPT
                      !.dx[i + 1] = t.dx,
                      !.dc = carry_c(lstm.dc, t.dprev_c),
                      !.dWx = Add4(lstm.dWx, t.dWx),
                      !.dWh = Add4(lstm.dWh, t.dWh),
                      !.db = Add4(lstm.db, t.db),
                      !.dh0 = IF i = 0 THEN <<t.dprev_h>> ELSE lstm.dh0,
                      !.dhcopy = written,
                      !.dh = IF lstm.dhcopy_array = "dh" THEN written ELSE lstm.dh,
                      !.i = i - 1,
                      !.calls = Append(lstm.calls,
                                       [t |-> i, dnext_h |-> lstm.dhcopy[i + 1],
                                        dnext_c |-> lstm.dc, returned |-> t])]
    /\ UNCHANGED <<knnVars, nnVars, fcVars, cnn, rnn, emb, tsl, cell, sig>>

\* return dx, dh0, dWx, dWh, db
LstmBackwardReturn ==
    /\ lstm.pc = "backward"
    /\ lstm.i < 0
    /\ lstm' = [lstm EXCEPT !.pc = "backward_done"]
    /\ UNCHANGED <<knnVars, nnVars, fcVars, cnn, rnn, emb, tsl, cell, sig>>

LstmForwardCall ==
    /\ lstm.pc = "idle"
    /\ \E x \in TimeSeries(Inputs), h0 \in LstmStates, Wx \in GateWeightsX,
          Wh \in GateWeightsH, b \in GateBiases :
          LstmForward(x, h0, Wx, Wh, b)
    /\ UNCHANGED <<knnVars, nnVars, fcVars, cnn, rnn, emb, tsl, cell, sig>>

LstmBackwardCall ==
    /\ lstm.pc = "forward_done"
    /\ \E dh \in [1..lstm.args.T -> LstmGrads] : LstmBackward(dh)
    /\ UNCHANGED <<knnVars, nnVars, fcVars, cnn, rnn, emb, tsl, cell, sig>>

LstmNext ==
    \/ LstmForwardCall
    \/ LstmForwardIter
    \/ LstmForwardReturn
    \/ LstmBackwardCall
    \/ LstmBackwardIter
    \/ LstmBackwardReturn
    \/ LstmBackwardAgain

\* ------------------------------------------------------- word embeddings
BatchSizes == {1, 2}
EmbedDims == {1}
UpstreamValues == {1, 2}

\* the word vectors: row v of W is filled with v + 1
EmbeddingMatrix(V, D) == Tab(LAMBDA v : Tab(LAMBDA d : v, D), V)

\* np.ravel(x) and np.reshape(dout, (N * T, D)): the rows in C order
ravel(a) ==
    LET T == Len(a[1])
    IN  Tab(LAMBDA j : a[((j - 1) \div T) + 1][((j - 1) % T) + 1], Len(a) * T)

\* dW[indices] += values with fancy indexing: the last row written to an
\* index is the one that stays
RECURSIVE add_buffered(_, _, _, _)
add_buffered(dW, indices, values, j) ==
    IF j > Len(indices) THEN dW
    ELSE add_buffered([dW EXCEPT ![indices[j] + 1] = values[j]], indices, values, j + 1)

\* np.add.at(dW, indices, values): the rows of values are added one after the
\* other, each to the row of dW its index names
RECURSIVE add_at(_, _, _, _)
add_at(dW, indices, values, j) ==
    IF j > Len(indices) THEN dW
    ELSE add_at([dW EXCEPT ![indices[j] + 1] =
                     Tab(LAMBDA d : dW[indices[j] + 1][d] + values[j][d], Len(values[j]))],
                indices, values, j + 1)

word_embedding_forward(x, W) ==
    [out |-> Tab(LAMBDA n : Tab(LAMBDA t : W[x[n][t] + 1], Len(x[n])), Len(x)),
     cache |-> [x |-> x, V |-> Len(W)]]

word_embedding_backward(dout, cache) ==
    LET x == cache.x
        V == cache.V
        D == Len(dout[1][1])
        dW == Tab(LAMBDA v : zeros(D), V)
    IN  add_at(dW, ravel(x), ravel(dout), 1)

EmbInit ==
    /\ emb = [pc |-> "idle"]
    /\ knnPc = "off"
    /\ X_train = <<>>
    /\ y_train = <<>>
    /\ knnCall = <<>>
    /\ dists = <<>>
    /\ y_pred = <<>>
    /\ knnError = <<>>
    /\ nnPc = "off"
    /\ params = <<>>
    /\ nnLoss = NoCall
    /\ train = <<>>
    /\ it = 0
    /\ learning_rate = 0
    /\ loss_history = <<>>
    /\ train_acc_history = <<>>
    /\ val_acc_history = <<>>
    /\ idx = <<>>
    /\ fcPc = "off"
    /\ fc = <<>>
    /\ fcError = "None"
    /\ fcCalls = 0
    /\ fcCall = NoFCCall
    /\ fcGradIds = {}
    /\ cnn = [pc |-> "off"]
    /\ rnn = [pc |-> "off"]
    /\ lstm = [pc |-> "off"]
    /\ tsl = [pc |-> "off"]
    /\ cell = [pc |-> "off"]
    /\ sig = [pc |-> "off"]

\* out, cache = word_embedding_forward(x, W)
EmbForward ==
    /\ emb.pc = "idle"
    /\ \E N \in BatchSizes, T \in 1..MaxWords, V \in 1..MaxVocab, D \in EmbedDims :
          \E x \in [1..N -> [1..T -> 0..(V - 1)]] :
             LET r == word_embedding_forward(x, EmbeddingMatrix(V, D))
             IN  emb' = [pc |-> "forward_done", x |-> x, V |-> V, D |-> D,
                         out |-> r.out, cache |-> r.cache]
    /\ UNCHANGED <<knnVars, nnVars, fcVars, cnn, rnn, lstm, tsl, cell, sig>>

\* dW = word_embedding_backward(dout, cache)
EmbBackward ==
    /\ emb.pc = "forward_done"
    /\ \E dout \in [1..Len(emb.x) -> [1..Len(emb.x[1]) -> [1..emb.D -> UpstreamValues]]] :
          emb' = [pc |-> "backward_done", x |-> emb.x, V |-> emb.V, D |-> emb.D,
                  out |-> emb.out, cache |-> emb.cache, dout |-> dout,
                  dW |-> word_embedding_backward(dout, emb.cache)]
    /\ UNCHANGED <<knnVars, nnVars, fcVars, cnn, rnn, lstm, tsl, cell, sig>>

EmbNext == EmbForward \/ EmbBackward

\* ------------------------------------------------- temporal_softmax_loss
\* Floating-point values are followed by kind.  np.exp of a difference of
\* scores is positive, or exactly zero when the difference is below the
\* underflow threshold of a float64; np.log of a positive value is finite and
\* np.log(0.) is -inf; False * -inf is nan, and a sum with a nan term is nan.
Underflow == 746
ScoreRows == {<<0, 0>>, <<0, 0 - 1>>, <<0, 0 - Underflow>>, <<0 - Underflow, 0>>}

RowMax(row) == CHOOSE m \in Range(row) : \A c \in 1..Len(row) : row[c] <= m

\* np.exp(x_flat - np.max(x_flat, axis=1)) / np.sum(...) of one row: for each
\* class whether the probability is positive or zero
probs_row(row) ==
    Tab(LAMBDA c : IF row[c] - RowMax(row) <= 0 - Underflow THEN "zero" ELSE "pos", Len(row))

\* np.log
log(p) == IF p = "zero" THEN "-inf" ELSE "finite"

\* mask_flat * np.log(...): a boolean times a float
times_mask(m, v) ==
    IF m THEN v
    ELSE IF v = "finite" THEN "zero" ELSE "nan"

\* -np.sum(terms) / N: nan if a term is nan, else inf if a term is -inf, else
\* the sum of the finite terms, which are the cross-entropies of the rows in
\* terms, over div
sum_over_batch(terms, N) ==
    IF \E r \in 1..Len(terms) : terms[r] = "nan" THEN [kind |-> "nan"]
    ELSE IF \E r \in 1..Len(terms) : terms[r] = "-inf" THEN [kind |-> "inf"]
    ELSE [kind |-> "finite", terms |-> {r \in 1..Len(terms) : terms[r] = "finite"},
          div |-> N]

\* one entry of dx_flat: (probs[r, c] - [c = y_flat[r]]) / N * mask_flat[r]; the
\* probabilities are finite, so that a False mask gives zero
dx_entry(r, c, y_flat, N, m) ==
    IF m THEN [kind |-> "grad", row |-> r, class |-> c, onehot |-> (c = y_flat[r] + 1),
               div |-> N]
    ELSE [kind |-> "zero"]

temporal_softmax_loss(x, y, mask) ==
    LET N == Len(x)
        T == Len(x[1])
        V == Len(x[1][1])
        x_flat == ravel(x)
        y_flat == ravel(y)
        mask_flat == ravel(mask)
        probs == Tab(LAMBDA r : probs_row(x_flat[r]), N * T)
        terms == Tab(LAMBDA r : times_mask(mask_flat[r], log(probs[r][y_flat[r] + 1])), N * T)
        dx_flat == Tab(LAMBDA r : Tab(LAMBDA c : dx_entry(r, c, y_flat, N, mask_flat[r]), V),
                       N * T)
    IN  [loss |-> sum_over_batch(terms, N),
         dx |-> Tab(LAMBDA n : Tab(LAMBDA t : dx_flat[(n - 1) * T + t], T), N)]

TslInit ==
    /\ tsl = [pc |-> "idle"]
    /\ knnPc = "off"
    /\ X_train = <<>>
    /\ y_train = <<>>
    /\ knnCall = <<>>
    /\ dists = <<>>
    /\ y_pred = <<>>
    /\ knnError = <<>>
    /\ nnPc = "off"
    /\ params = <<>>
    /\ nnLoss = NoCall
    /\ train = <<>>
    /\ it = 0
    /\ learning_rate = 0
    /\ loss_history = <<>>
    /\ train_acc_history = <<>>
    /\ val_acc_history = <<>>
    /\ idx = <<>>
    /\ fcPc = "off"
    /\ fc = <<>>
    /\ fcError = "None"
    /\ fcCalls = 0
    /\ fcCall = NoFCCall
    /\ fcGradIds = {}
    /\ cnn = [pc |-> "off"]
    /\ rnn = [pc |-> "off"]
    /\ lstm = [pc |-> "off"]
    /\ emb = [pc |-> "off"]
    /\ cell = [pc |-> "off"]
    /\ sig = [pc |-> "off"]

\* loss, dx = temporal_softmax_loss(x, y, mask)
TslCall ==
    /\ tsl.pc = "idle"
    /\ \E N \in BatchSizes, T \in 1..MaxSteps :
          \E x \in [1..N -> [1..T -> ScoreRows]], y \in [1..N -> [1..T -> {0, 1}]],
             mask \in [1..N -> [1..T -> BOOLEAN]] :
             LET r == temporal_softmax_loss(x, y, mask)
             IN  tsl' = [pc |-> "returned", x |-> x, y |-> y, mask |-> mask,
                         loss |-> r.loss, dx |-> r.dx]
    /\ UNCHANGED <<knnVars, nnVars, fcVars, cnn, rnn, lstm, emb, cell, sig>>

TslNext == TslCall

\* ------------------------------------------- one LSTM step, column by column
\* lstm_step_forward and lstm_step_backward for one sample (N = 1) with one
\* feature (D = 1) and H hidden units, H in 1..MaxGateWidth. A has 4H columns;
\* the model keeps, next to every value, the columns the slices select.

\* a bound of a Python slice on an axis of length n: a negative bound counts
\* from the end, and the result is clamped to 0..n
slice_bound(n, k) ==
    IF k < 0 THEN (IF n + k < 0 THEN 0 ELSE n + k)
    ELSE (IF k > n THEN n ELSE k)

\* the (1-based) columns that a[:, start:stop] selects on an axis of length n
slice(n, start, stop) ==
    LET lo == slice_bound(n, start)
        hi == slice_bound(n, stop)
    IN  Tab(LAMBDA j : lo + j, IF hi > lo THEN hi - lo ELSE 0)

\* the four slices of A in lstm_step_forward and lstm_step_backward:
\* A[:, :H], A[:, H:2*H], A[:, 2*H:3*H], A[:, -H:]
gate_columns(n, H) ==
    [i |-> slice(n, 0, H),
     f |-> slice(n, H, 2 * H),
     o |-> slice(n, 2 * H, 3 * H),
     g |-> slice(n, 0 - H, n)]

take(a, cols) == Tab(LAMBDA j : a[cols[j]], Len(cols))

\* rows of H entries: all zero, all one, and only the first unit one
HiddenRows(H) == {Tab(LAMBDA j : 0, H), Tab(LAMBDA j : 1, H)}
UnitRows(H) == HiddenRows(H) \cup {Tab(LAMBDA j : IF j = 1 THEN 1 ELSE 0, H)}
ColumnWeightsX(H) == [1..(4 * H) -> Weights]
ColumnWeightsH(H) == {Tab(LAMBDA r : Tab(LAMBDA c : 0 - 1, 4 * H), H)}
ColumnBiases(H) == {Tab(LAMBDA c : 0, 4 * H)}

\* a @ W for a row a of length H and an H x n matrix W
row_times(a, W, n) ==
    Tab(LAMBDA c : SumSeq(Tab(LAMBDA r : a[r] * W[r][c], Len(a))), n)

lstm_step_forward_cols(x, prev_h, prev_c, Wx, Wh, b) ==
    LET H == Len(prev_h)
        n == Len(b)
        xWx == Tab(LAMBDA c : x * Wx[c], n)
        hWh == row_times(prev_h, Wh, n)
        A == Tab(LAMBDA c : xWx[c] + hWh[c] + b[c], n)
        cols == gate_columns(n, H)
        Ai == take(A, cols.i)
        Af == take(A, cols.f)
        Ao == take(A, cols.o)
        Ag == take(A, cols.g)
        i == Tab(LAMBDA j : sigmoid(Ai[j]), Len(Ai))
        f == Tab(LAMBDA j : sigmoid(Af[j]), Len(Af))
        o == Tab(LAMBDA j : sigmoid(Ao[j]), Len(Ao))
        g == Tab(LAMBDA j : tanh(Ag[j]), Len(Ag))
        next_c == Tab(LAMBDA j : f[j] * prev_c[j] + i[j] * g[j], H)
        next_h == Tab(LAMBDA j : o[j] * tanh(next_c[j]), H)
    IN  [next_h |-> next_h, next_c |-> next_c,
         cache |-> [i |-> i, f |-> f, o |-> o, g |-> g, prev_c |-> prev_c,
                    next_c |-> next_c, x |-> x, Wx |-> Wx, prev_h |-> prev_h,
                    Wh |-> Wh, b |-> b, A |-> A]]

\* np.concatenate((dai, daf, dao, dag), axis=1) with the four blocks in another
\* order
concatenate_gates_swapped(dai, daf, dao, dag) == dai \o daf \o dag \o dao

\* np.concatenate((dai, daf, dao, dag), axis=1)
concatenate_gates(dai, daf, dao, dag) == dai \o daf \o dao \o dag

\* every entry of a gate gradient is kept with the gate and the unit it is
\* the gradient of
lstm_step_backward_cols(dnext_h, dnext_c, cache) ==
    LET H == Len(dnext_h)
        n == Len(cache.A)
        cols == gate_columns(n, H)
        i == cache.i
        f == cache.f
        o == cache.o
        g == cache.g
        dc == Tab(LAMBDA j : dnext_c[j]
                    + dnext_h[j] * o[j] * (1 - Sq(tanh(cache.next_c[j]))), H)
        do == Tab(LAMBDA j : dnext_h[j] * tanh(cache.next_c[j]), H)
        df == Tab(LAMBDA j : dc[j] * cache.prev_c[j], H)
        dprev_c == Tab(LAMBDA j : dc[j] * f[j], H)
        di == Tab(LAMBDA j : dc[j] * g[j], H)
        dg == Tab(LAMBDA j : dc[j] * i[j], H)
        Ai == take(cache.A, cols.i)
        Af == take(cache.A, cols.f)
        Ao == take(cache.A, cols.o)
        Ag == take(cache.A, cols.g)
        dai == Tab(LAMBDA j : [gate |-> "i", unit |-> j,
                  value |-> di[j] * (1 - sigmoid(Ai[j])) * sigmoid(Ai[j])], H)
        daf == Tab(LAMBDA j : [gate |-> "f", unit |-> j,
                  value |-> df[j] * (1 - sigmoid(Af[j])) * sigmoid(Af[j])], H)
        dao == Tab(LAMBDA j : [gate |-> "o", unit |-> j,
                  value |-> do[j] * (1 - sigmoid(Ao[j])) * sigmoid(Ao[j])], H)
        dag == Tab(LAMBDA j : [gate |-> "g", unit |-> j,
                  value |-> dg[j] * (1 - Sq(tanh(Ag[j])))], H)
        dA == concatenate_gates(dai, daf, dao, dag)
        m == Len(dA)
    IN  [dx |-> SumSeq(Tab(LAMBDA c : dA[c].value * cache.Wx[c], m)),
         dprev_h |-> Tab(LAMBDA r :
                       SumSeq(Tab(LAMBDA c : dA[c].value * cache.Wh[r][c], m)), H),
         dprev_c |-> dprev_c,
         dWx |-> Tab(LAMBDA c : cache.x * dA[c].value, m),
         dWh |-> Tab(LAMBDA r : Tab(LAMBDA c : cache.prev_h[r] * dA[c].value, m), H),
         db |-> Tab(LAMBDA c : dA[c].value, m),
         dA |-> dA,
         gates |-> [i |-> dai, f |-> daf, o |-> dao, g |-> dag]]

CellInit ==
    /\ cell = [pc |-> "idle"]
    /\ knnPc = "off"
    /\ X_train = <<>>
    /\ y_train = <<>>
    /\ knnCall = <<>>
    /\ dists = <<>>
    /\ y_pred = <<>>
    /\ knnError = <<>>
    /\ nnPc = "off"
    /\ params = <<>>
    /\ nnLoss = NoCall
    /\ train = <<>>
    /\ it = 0
    /\ learning_rate = 0
    /\ loss_history = <<>>
    /\ train_acc_history = <<>>
    /\ val_acc_history = <<>>
    /\ idx = <<>>
    /\ fcPc = "off"
    /\ fc = <<>>
    /\ fcError = "None"
    /\ fcCalls = 0
    /\ fcCall = NoFCCall
    /\ fcGradIds = {}
    /\ cnn = [pc |-> "off"]
    /\ rnn = [pc |-> "off"]
    /\ lstm = [pc |-> "off"]
    /\ emb = [pc |-> "off"]
    /\ tsl = [pc |-> "off"]
    /\ sig = [pc |-> "off"]

LstmStepForward(x, prev_h, prev_c, Wx, Wh, b) ==
    LET r == lstm_step_forward_cols(x, prev_h, prev_c, Wx, Wh, b)
    IN  cell' = [pc |-> "forward_done", H |-> Len(prev_h),
                 next_h |-> r.next_h, next_c |-> r.next_c, cache |-> r.cache]

LstmStepBackward(dnext_h, dnext_c) ==
    LET r == lstm_step_backward_cols(dnext_h, dnext_c, cell.cache)
    IN  cell' = [pc |-> "backward_done", H |-> cell.H,
                 next_h |-> cell.next_h, next_c |-> cell.next_c,
                 cache |-> cell.cache,
                 dnext_h |-> dnext_h, dnext_c |-> dnext_c, returned |-> r]

LstmStepForwardCall ==
    /\ cell.pc = "idle"
    /\ \E H \in 1..MaxGateWidth :
          \E x \in Inputs, prev_h \in UnitRows(H), prev_c \in HiddenRows(H),
             Wx \in ColumnWeightsX(H), Wh \in ColumnWeightsH(H),
             b \in ColumnBiases(H) :
             LstmStepForward(x, prev_h, prev_c, Wx, Wh, b)
    /\ UNCHANGED <<knnVars, nnVars, fcVars, cnn, rnn, lstm, emb, tsl, sig>>

LstmStepBackwardCall ==
    /\ cell.pc = "forward_done"
    /\ \E dnext_h \in HiddenRows(cell.H), dnext_c \in HiddenRows(cell.H) :
          LstmStepBackward(dnext_h, dnext_c)
    /\ UNCHANGED <<knnVars, nnVars, fcVars, cnn, rnn, lstm, emb, tsl, sig>>

CellNext ==
    \/ LstmStepForwardCall
    \/ LstmStepBackwardCall

\* ------------------------------------------------------------------ sigmoid
\* sigmoid statement by statement on a one-dimensional array. An element of x
\* is an integer; np.exp is not evaluated: a value is either a constant or
\* e^arg, kept as a record, and the quotient top / (1 + z) is kept as the pair
\* of its top and its z.
SigValues == (0 - MaxSigValue)..MaxSigValue
SigArrays == UNION {[1..n -> SigValues] : n \in 1..MaxSigLen}

const(v) == [kind |-> "const", v |-> v]
exp(a) == [kind |-> "exp", v |-> a]

\* the masks with a strict comparison for the first one
sigmoid_masks_strict(x) ==
    [pos |-> Tab(LAMBDA j : x[j] > 0, Len(x)),
     neg |-> Tab(LAMBDA j : x[j] < 0, Len(x))]

\* pos_mask = (x >= 0); neg_mask = (x < 0)
sigmoid_masks(x) ==
    [pos |-> Tab(LAMBDA j : x[j] >= 0, Len(x)),
     neg |-> Tab(LAMBDA j : x[j] < 0, Len(x))]

\* a[mask]: the elements of a at the positions where mask holds, in order
masked(a, mask) ==
    LET at == SelectSeq(Tab(LAMBDA j : j, Len(a)), LAMBDA j : mask[j])
    IN  Tab(LAMBDA k : a[at[k]], Len(at))

\* a[mask] = values: the k-th value goes to the k-th position where mask holds
masked_assign(a, mask, values) ==
    LET before(j) == Cardinality({k \in 1..j : mask[k]})
    IN  Tab(LAMBDA j : IF mask[j] THEN values[before(j)] ELSE a[j], Len(a))

\* one run of sigmoid(x). arrays holds the arrays that exist when the
\* function returns, by the name they are bound to; exp_args holds the
\* argument array of each call of np.exp.
sigmoid_run(x) ==
    LET n == Len(x)
        m == sigmoid_masks(x)
        z0 == Tab(LAMBDA j : const(0), n)
        arg_pos == Tab(LAMBDA k : 0 - masked(x, m.pos)[k], Len(masked(x, m.pos)))
        z1 == masked_assign(z0, m.pos, Tab(LAMBDA k : exp(arg_pos[k]), Len(arg_pos)))
        arg_neg == masked(x, m.neg)
        z2 == masked_assign(z1, m.neg, Tab(LAMBDA k : exp(arg_neg[k]), Len(arg_neg)))
        top0 == Tab(LAMBDA j : const(1), n)
        top1 == masked_assign(top0, m.neg, masked(z2, m.neg))
    IN  [pos_mask |-> m.pos, neg_mask |-> m.neg,
         exp_args |-> <<arg_pos, arg_neg>>,
         assigned |-> <<"z", "z", "top">>,
         arrays |-> [x |-> x, z |-> z2, top |-> top1],
         out |-> Tab(LAMBDA j : [top |-> top1[j], z |-> z2[j]], n)]

SigInit ==
    /\ sig = [pc |-> "idle"]
    /\ knnPc = "off"
    /\ X_train = <<>>
    /\ y_train = <<>>
    /\ knnCall = <<>>
    /\ dists = <<>>
    /\ y_pred = <<>>
    /\ knnError = <<>>
    /\ nnPc = "off"
    /\ params = <<>>
    /\ nnLoss = NoCall
    /\ train = <<>>
    /\ it = 0
    /\ learning_rate = 0
    /\ loss_history = <<>>
    /\ train_acc_history = <<>>
    /\ val_acc_history = <<>>
    /\ idx = <<>>
    /\ fcPc = "off"
    /\ fc = <<>>
    /\ fcError = "None"
    /\ fcCalls = 0
    /\ fcCall = NoFCCall
    /\ fcGradIds = {}
    /\ cnn = [pc |-> "off"]
    /\ rnn = [pc |-> "off"]
    /\ lstm = [pc |-> "off"]
    /\ emb = [pc |-> "off"]
    /\ tsl = [pc |-> "off"]
    /\ cell = [pc |-> "off"]

Sigmoid(x) ==
    sig' = [pc |-> "done", x |-> x, run |-> sigmoid_run(x)]

SigmoidCall ==
    /\ sig.pc = "idle"
    /\ \E x \in SigArrays : Sigmoid(x)
    /\ UNCHANGED <<knnVars, nnVars, fcVars, cnn, rnn, lstm, emb, tsl, cell>>

SigNext ==
    \/ SigmoidCall

\* --------------------------------------- rnn_backward and lstm_backward
\* the caller uses either the vanilla RNN or the LSTM
BackwardInit ==
    /\ \/ rnn = [pc |-> "idle"] /\ lstm = [pc |-> "off"]
       \/ rnn = [pc |-> "off"] /\ lstm = [pc |-> "idle"]
    /\ knnPc = "off"
    /\ X_train = <<>>
    /\ y_train = <<>>
    /\ knnCall = <<>>
    /\ dists = <<>>
    /\ y_pred = <<>>
    /\ knnError = <<>>
    /\ nnPc = "off"
    /\ params = <<>>
    /\ nnLoss = NoCall
    /\ train = <<>>
    /\ it = 0
    /\ learning_rate = 0
    /\ loss_history = <<>>
    /\ train_acc_history = <<>>
    /\ val_acc_history = <<>>
    /\ idx = <<>>
    /\ fcPc = "off"
    /\ fc = <<>>
    /\ fcError = "None"
    /\ fcCalls = 0
    /\ fcCall = NoFCCall
    /\ fcGradIds = {}
    /\ cnn = [pc |-> "off"]
    /\ emb = [pc |-> "off"]
    /\ tsl = [pc |-> "off"]
    /\ cell = [pc |-> "off"]
    /\ sig = [pc |-> "off"]

BackwardNext ==
    \/ RnnForwardCall
    \/ RnnForwardIter
    \/ RnnForwardReturn
    \/ RnnBackwardCall
    \/ RnnBackwardIter
    \/ RnnBackwardReturn
    \/ RnnBackwardAgain
    \/ LstmForwardCall
    \/ LstmForwardIter
    \/ LstmForwardReturn
    \/ LstmBackwardCall
    \/ LstmBackwardIter
    \/ LstmBackwardReturn
    \/ LstmBackwardAgain

SpecKNN == KnnInit /\ [][KnnNext]_vars

SpecNN == NNInit /\ [][NNNext]_vars

SpecFC == FCInit /\ [][FCNext]_vars

SpecCNN == CnnInit /\ [][CnnNext]_vars

SpecRNN == RnnInit /\ [][RnnNext]_vars

SpecLSTM == LstmInit /\ [][LstmNext]_vars

SpecEmb == EmbInit /\ [][EmbNext]_vars

SpecTsl == TslInit /\ [][TslNext]_vars

SpecCell == CellInit /\ [][CellNext]_vars

SpecSig == SigInit /\ [][SigNext]_vars

SpecBackward == BackwardInit /\ [][BackwardNext]_vars

\* ============================================================ KNN claims
KnnCalled == knnPc \in {"returned", "raised"}

\* the sets of k training points nearest to test row i: no point outside the
\* set is strictly nearer than a point inside it
NearestSets(i, k) ==
    {S \in SUBSET (1..Len(y_train)) :
        /\ Cardinality(S) = k
        /\ \A a \in S : \A b \in (1..Len(y_train)) \ S : dists[i][a] <= dists[i][b]}

VotesIn(S, l) == Cardinality({a \in S : y_train[a] = l})

TopLabels(S) ==
    {l \in Labels : VotesIn(S, l) > 0 /\ \A m \in Labels : VotesIn(S, m) <= VotesIn(S, l)}

\* C1: the label predicted for a test row is one with the highest count among
\* the labels of the k training points nearest to the row, and among the
\* labels that share the highest count it is the numerically smallest.
C1_MajorityVoteSmallestLabel ==
    knnPc = "returned" =>
        \A i \in 1..Len(y_pred) :
            \E S \in NearestSets(i, knnCall.k) :
                /\ y_pred[i] \in TopLabels(S)
                /\ \A l \in TopLabels(S) : y_pred[i] <= l

\* the tie of the spec: neighbours 5 then 3 at k = 2, and 3 is returned
C1_Witness ==
    /\ knnPc = "returned"
    /\ knnCall.k = 2
    /\ dists[1][1] < dists[1][2]
    /\ dists[1][2] < dists[1][3]
    /\ y_train[1] = 5
    /\ y_train[2] = 3
    /\ y_pred[1] = 3

\* squared Euclidean distance of two vectors of the same length
RECURSIVE SqEuclid(_, _)
SqEuclid(a, b) ==
    IF a = <<>> THEN 0
    ELSE (Head(a) - Head(b)) * (Head(a) - Head(b)) + SqEuclid(Tail(a), Tail(b))

RECURSIVE DigitsValue(_, _)
DigitsValue(ds, acc) ==
    IF ds = <<>> THEN acc
    ELSE DigitsValue(Tail(ds), 10 * acc + (CHOOSE v \in 0..9 : DigitChar[v + 1] = Head(ds)))

NamedValue(msg) ==
    LET body == SubSeq(msg, 2, Len(msg) - 1)
    IN  IF Head(body) = "-" THEN 0 - DigitsValue(Tail(body), 0) ELSE DigitsValue(body, 0)

C4_PenaltyOnWeightsOnly ==
    nnLoss.labelled =>
        LET P == nnLoss.params
            reg == nnLoss.reg
            r0 == loss(nnLoss.X, nnLoss.y, 0, P, nnLoss.d_bias2)
        IN  /\ nnLoss.loss = r0.loss + reg * (SumSq(P.W1) + SumSq(P.W2))
            /\ nnLoss.grads.b1 = r0.grads.b1
            /\ nnLoss.grads.b2 = r0.grads.b2
            /\ nnLoss.grads.W1 = MatAdd(r0.grads.W1, MatScale(2 * reg, P.W1))
            /\ nnLoss.grads.W2 = MatAdd(r0.grads.W2, MatScale(2 * reg, P.W2))

RECURSIVE Pow(_, _)
Pow(b, e) == IF e = 0 THEN 1 ELSE b * Pow(b, e - 1)

\* C5: the accuracy evaluation and the learning-rate decay happen exactly once
\* per epoch of max(N / batch_size, 1) iterations: after t iterations there have
\* been e of them with (e - 1) epochs < t iterations <= e epochs, also when N
\* is not a multiple of batch_size.
C5_OncePerEpoch ==
    nnPc \in {"training", "returned"} =>
        LET e == Len(train_acc_history)
            whole == train.N >= train.batch_size
            p == IF whole THEN train.N ELSE 1
            q == IF whole THEN train.batch_size ELSE 1
        IN  /\ Len(val_acc_history) = e
            /\ learning_rate = train.learning_rate * Pow(train.learning_rate_decay, e)
            /\ (it = 0) => (e = 0)
            /\ (it > 0) => ((e - 1) * p < it * q /\ it * q <= e * p)

\* C6: every iteration draws batch_size indices from 0..N-1, appends one loss,
\* and moves each of W1, W2, b1, b2 by - learning_rate * grad with the
\* gradients of that batch and the learning rate in force when the iteration
\* began; train returns with len(loss_history) = num_iters and the two accuracy
\* histories of equal length.
C6_Iteration ==
    LET g == nnLoss'.grads
        lr == learning_rate
    IN  /\ (nnPc = "training" /\ it' = it + 1) =>
              /\ Len(idx') = train.batch_size
              /\ \A b \in 1..Len(idx') : idx'[b] \in 0..(train.N - 1)
              /\ nnLoss'.labelled
              /\ nnLoss'.params = params
              /\ nnLoss'.reg = train.reg
              /\ Len(nnLoss'.X) = train.batch_size
              /\ \A b \in 1..Len(idx') :
                    /\ nnLoss'.X[b] = train.X[idx'[b] + 1]
                    /\ nnLoss'.y[b] = train.y[idx'[b] + 1]
              /\ loss_history' = Append(loss_history, nnLoss'.loss)
              /\ \A i \in 1..InputSize : \A j \in 1..HiddenSize :
                    params'.W1[i][j] = params.W1[i][j] - lr * g.W1[i][j]
              /\ \A i \in 1..HiddenSize : \A j \in 1..NumClasses :
                    params'.W2[i][j] = params.W2[i][j] - lr * g.W2[i][j]
              /\ \A j \in 1..HiddenSize : params'.b1[j] = params.b1[j] - lr * g.b1[j]
              /\ \A j \in 1..NumClasses : params'.b2[j] = params.b2[j] - lr * g.b2[j]
              /\ learning_rate' \in {lr, lr * train.learning_rate_decay}
        /\ (nnPc' = "returned") =>
              /\ Len(loss_history') = train'.num_iters
              /\ Len(train_acc_history') = Len(val_acc_history')

C6_IterationUpdates == [][C6_Iteration]_vars

\* two iterations on a batch that draws the same index twice, the second one
\* after a decay of the learning rate
C6_Witness ==
    /\ nnPc = "returned"
    /\ it = 2
    /\ Len(idx) = 2
    /\ idx[1] = idx[2]
    /\ learning_rate = 4
    /\ nnLoss.grads.b2 # nnLoss.params.b2
    /\ Len(loss_history) = 2

\* ============================================================= FC claims
FCCalled == fcPc = "ready" /\ fcCall.made

ModeOf(labelled) == IF labelled THEN "train" ELSE "test"

\* C7: in every loss call of an instance, whatever the calls before it, the
\* mode handed to each dropout and each batchnorm forward primitive is 'train'
\* exactly when labels were supplied, and so is the mode held by dropout_param
\* and by every bn_params[i]: it was written before the first primitive ran.
C7_ModeFollowsLabels ==
    FCCalled =>
        /\ \A j \in 1..Len(fcCall.forward) :
              fcCall.forward[j].op \in {"batchnorm_forward", "dropout_forward"} =>
                  fcCall.forward[j].mode = ModeOf(fcCall.labelled)
        /\ fc.use_dropout => fc.dropout_param.mode = ModeOf(fcCall.labelled)
        /\ fc.normalization = "batchnorm" =>
              \A i \in 1..Len(fc.bn_params) :
                  fc.bn_params[i].dict.mode = ModeOf(fcCall.labelled)

\* a call without labels, after a call with labels, of a network with two
\* hidden layers, dropout and batchnorm
C7_Witness ==
    /\ FCCalled
    /\ ~fcCall.labelled
    /\ fcGradIds # {}
    /\ fc.use_dropout
    /\ fc.normalization = "batchnorm"
    /\ fc.num_layers = 3
    /\ \E j \in 1..Len(fcCall.forward) : fcCall.forward[j].op = "dropout_forward"
    /\ \E j \in 1..Len(fcCall.forward) :
          fcCall.forward[j].op = "batchnorm_forward" /\ fcCall.forward[j].cache[1] = 1

Paired(op) ==
    CASE op = "affine_forward" -> "affine_backward"
      [] op = "batchnorm_forward" -> "batchnorm_backward_alt"
      [] op = "layernorm_forward" -> "layernorm_backward"
      [] op = "relu_forward" -> "relu_backward"
      [] op = "dropout_forward" -> "dropout_backward"

Rank(key) ==
    CASE key = "affine" -> 1
      [] key \in {"batchnorm", "layernorm"} -> 2
      [] key = "relu" -> 3
      [] key = "dropout" -> 4

\* C8: in a call with labels the forward primitives run layer after layer, in
\* each layer in the order affine, normalization, ReLU, dropout; the backward
\* primitives start at the final affine and run the layers downwards, in each
\* layer in the order dropout, ReLU, normalization, affine; and every cache
\* entry a forward primitive produced is consumed by exactly one backward
\* primitive, the one paired with it.
C8_BackwardMirrorsForward ==
    (FCCalled /\ fcCall.labelled) =>
        LET f == fcCall.forward
            b == fcCall.backward
            n == Len(f)
        IN  /\ Len(b) = n
            /\ \A j \in 1..(n - 1) :
                  \/ f[j].cache[1] < f[j + 1].cache[1]
                  \/ /\ f[j].cache[1] = f[j + 1].cache[1]
                     /\ Rank(f[j].cache[2]) < Rank(f[j + 1].cache[2])
            /\ b[1] = [op |-> "affine_backward", cache |-> <<fc.num_layers - 1, "affine">>]
            /\ \A j \in 1..(n - 1) :
                  \/ b[j].cache[1] > b[j + 1].cache[1]
                  \/ /\ b[j].cache[1] = b[j + 1].cache[1]
                     /\ Rank(b[j].cache[2]) > Rank(b[j + 1].cache[2])
            /\ \A j \in 1..n :
                  /\ Cardinality({k \in 1..n : b[k].cache = f[j].cache}) = 1
                  /\ b[n + 1 - j].cache = f[j].cache
                  /\ b[n + 1 - j].op = Paired(f[j].op)

\* a call with labels of a network with two hidden layers, dropout and
\* layernorm: nine forward primitives and nine backward ones
C8_Witness ==
    /\ FCCalled
    /\ fcCall.labelled
    /\ fc.use_dropout
    /\ fc.normalization = "layernorm"
    /\ fc.num_layers = 3
    /\ Len(fcCall.forward) = 9
    /\ Len(fcCall.backward) = 9
    /\ fcCall.backward[2].op = "dropout_backward"
    /\ fcCall.backward[4].op = "layernorm_backward"

C9_Returns ==
    FCCalled =>
        IF fcCall.labelled
        THEN /\ fcCall.returns = <<"loss", "grads">>
             /\ fcCall.grads = DOMAIN fc.params
        ELSE fcCall.returns = <<"scores">>

C9_Fresh ==
    (fcCalls' = fcCalls + 1 /\ fcCall'.labelled) => fcCall'.grads_id \notin fcGradIds

\* C9: for every depth, normalization and dropout setting, a call without
\* labels returns the scores alone, and a call with labels returns the loss and
\* a gradient mapping whose keys are exactly the keys of params; the mapping is
\* a new one in every call, none of those an earlier call returned.
C9_LossReturns == []C9_Returns /\ [][C9_Fresh]_vars

\* the second call with labels of a network with two hidden layers and
\* batchnorm, whose gradients include those of gamma2 and beta2
C9_Witness ==
    /\ FCCalled
    /\ fcCall.labelled
    /\ fcCalls = 2
    /\ Cardinality(fcGradIds) = 2
    /\ fc.normalization = "batchnorm"
    /\ fc.num_layers = 3
    /\ Key("gamma", 2) \in fcCall.grads
    /\ Key("beta", 2) \in fcCall.grads
    /\ Key("gamma", 3) \notin fcCall.grads

\* C10: constructing with hidden_dims of length n gives params W1..W(n+1) and
\* b1..b(n+1), Wi of shape (dims[i-1], dims[i]) and bi zero; gamma_i and beta_i
\* only with a normalization, for the hidden layers 1..n, ones and zeros of
\* width dims[i]; and n distinct bn_params holders with batchnorm.
C10_ConstructionParams ==
    fcPc \in {"ready", "raised"} =>
        /\ fcPc = "ready"
        /\ LET n == Len(fc.hidden_dims)
               dims == <<CHOOSE d \in InputDims : TRUE>> \o fc.hidden_dims
                       \o <<CHOOSE c \in NumClassesFC : TRUE>>
               P == fc.params
           IN  /\ DOMAIN P =
                     {Key("W", i) : i \in 1..(n + 1)} \cup {Key("b", i) : i \in 1..(n + 1)}
                     \cup (IF fc.normalization # "None"
                           THEN {Key("gamma", i) : i \in 1..n} \cup {Key("beta", i) : i \in 1..n}
                           ELSE {})
               /\ \A i \in 1..(n + 1) :
                     /\ P[Key("W", i)].shape = <<dims[i], dims[i + 1]>>
                     /\ P[Key("b", i)] = [shape |-> <<dims[i + 1]>>, fill |-> "zeros"]
               /\ fc.normalization # "None" =>
                     \A i \in 1..n :
                         /\ P[Key("gamma", i)] = [shape |-> <<dims[i + 1]>>, fill |-> "ones"]
                         /\ P[Key("beta", i)] = [shape |-> <<dims[i + 1]>>, fill |-> "zeros"]
               /\ fc.normalization = "batchnorm" =>
                     /\ Len(fc.bn_params) = n
                     /\ \A i, j \in 1..n : i # j => fc.bn_params[i].id # fc.bn_params[j].id

\* ============================================================ CNN claims
CnnCalled == cnn.pc \in {"returned", "raised"}

C20_ConvPreservesSize ==
    CnnCalled =>
        LET pad == cnn.call.conv_param.pad
            filter_size == cnn.call.filter_size
        IN  /\ cnn.call.conv_param.stride = 1
            /\ pad = (filter_size - 1) \div 2
            /\ cnn.net.H + 2 * pad - filter_size + 1 = cnn.net.H
            /\ cnn.net.W + 2 * pad - filter_size + 1 = cnn.net.W

\* ============================================================ RNN claims
\* C12: rnn_backward over T >= 1 timesteps calls rnn_step_backward for
\* t = T-1 down to 0; the gradient given to step t is dh[:, t] plus the dprev_h
\* that step t+1 returned (dh[:, T-1] alone for the last step); dWx, dWh and db
\* are the sums of the values of the steps, dx[:, t] is the dx of step t and
\* dh0 is the dprev_h of step 0.
C12_BackwardThroughTime ==
    rnn.pc \in {"backward", "backward_done"} =>
        LET T == rnn.T
            calls == rnn.calls
            n == Len(calls)
        IN  /\ \A k \in 1..n : calls[k].t = T - k
            /\ \A k \in 1..n :
                  calls[k].dnext_h =
                      IF k = 1 THEN rnn.dh[T]
                      ELSE rnn.dh[T - k + 1] + calls[k - 1].returned.dprev_h
            /\ rnn.pc = "backward_done" =>
                  /\ n = T
                  /\ rnn.dWx = SumSeq(Tab(LAMBDA k : calls[k].returned.dWx, n))
                  /\ rnn.dWh = SumSeq(Tab(LAMBDA k : calls[k].returned.dWh, n))
                  /\ rnn.db = SumSeq(Tab(LAMBDA k : calls[k].returned.db, n))
                  /\ \A k \in 1..n : rnn.dx[calls[k].t + 1] = calls[k].returned.dx
                  /\ rnn.dh0 = <<calls[n].returned.dprev_h>>

\* three timesteps in which the gradient of the loss of a timestep meets a
\* nonzero gradient flowing back from the timestep after it, and two steps
\* contribute to db
C12_Witness ==
    /\ rnn.pc = "backward_done"
    /\ rnn.T = 3
    /\ \E k \in 2..3 :
          /\ rnn.calls[k - 1].returned.dprev_h # 0
          /\ rnn.dh[3 - k + 1] # 0
          /\ rnn.calls[k].dnext_h # rnn.dh[3 - k + 1]
    /\ Cardinality({k \in 1..3 : rnn.calls[k].returned.db # 0}) >= 2
    /\ rnn.dh0 # <<0>>

\* C13: rnn_forward, for every number T of timesteps of x, returns h of length
\* T with h[:, 0] = rnn_step_forward(x[:, 0], h0) and h[:, t] =
\* rnn_step_forward(x[:, t], h[:, t-1]) for 0 < t < T, and a cache list with
\* one step cache per timestep, in forward order.
C13_ForwardUnrolls ==
    rnn.pc \in {"raised", "forward_done"} =>
        LET a == rnn.args
        IN  /\ rnn.pc = "forward_done"
            /\ Len(rnn.h) = a.T
            /\ Len(rnn.cache) = a.T
            /\ \A t \in 1..a.T :
                  LET prev == IF t = 1 THEN a.h0 ELSE rnn.h[t - 1]
                      s == rnn_step_forward(a.x[t], prev, a.Wx, a.Wh, a.b)
                  IN  /\ rnn.h[t] = s.next_h
                      /\ rnn.cache[t] = s.cache

\* C14: lstm_backward carries two gradients from timestep to timestep: going
\* from t = T-1 down to 0, the dnext_c given to lstm_step_backward at step t is
\* the dprev_c that step t+1 returned (zero at the last step) and the dnext_h
\* given is dh[:, t] plus the dprev_h that step t+1 returned; dWx, dWh and db
\* are summed over the steps and dh0 is the dprev_h of step 0.
C14_TwoRecurrentGradients ==
    lstm.pc \in {"backward", "backward_done"} =>
        LET T == lstm.T
            calls == lstm.calls
            n == Len(calls)
        IN  /\ \A k \in 1..n : calls[k].t = T - k
            /\ \A k \in 1..n :
                  /\ calls[k].dnext_c =
                        IF k = 1 THEN 0 ELSE calls[k - 1].returned.dprev_c
                  /\ calls[k].dnext_h =
                        IF k = 1 THEN lstm.dh[T]
                        ELSE lstm.dh[T - k + 1] + calls[k - 1].returned.dprev_h
            /\ lstm.pc = "backward_done" =>
                  /\ n = T
                  /\ \A j \in 1..4 :
                        /\ lstm.dWx[j] = SumSeq(Tab(LAMBDA k : calls[k].returned.dWx[j], n))
                        /\ lstm.dWh[j] = SumSeq(Tab(LAMBDA k : calls[k].returned.dWh[j], n))
                        /\ lstm.db[j] = SumSeq(Tab(LAMBDA k : calls[k].returned.db[j], n))
                  /\ \A k \in 1..n : lstm.dx[calls[k].t + 1] = calls[k].returned.dx
                  /\ lstm.dh0 = <<calls[n].returned.dprev_h>>

\* three timesteps in which a step receives a nonzero cell gradient and a
\* nonzero hidden gradient from the step after it, on top of its own dh
C14_Witness ==
    /\ lstm.pc = "backward_done"
    /\ lstm.T = 3
    /\ \E k \in 2..3 :
          /\ lstm.calls[k].dnext_c # 0
          /\ lstm.calls[k - 1].returned.dprev_h # 0
          /\ lstm.dh[3 - k + 1] # 0
    /\ Cardinality({k \in 1..3 : lstm.calls[k].returned.db # <<0, 0, 0, 0>>}) >= 2

\* C15: word_embedding_backward returns dW of shape (V, D) whose row v is the
\* sum of dout[n, t] over the positions (n, t) with x[n, t] = v: the rows of a
\* repeated index add up, and the row of an index that does not occur is zero.
C15_ScatterAdd ==
    emb.pc = "backward_done" =>
        LET x == emb.x
            dout == emb.dout
            N == Len(x)
            T == Len(x[1])
        IN  /\ Len(emb.dW) = emb.V
            /\ \A v \in 0..(emb.V - 1) :
                  /\ Len(emb.dW[v + 1]) = emb.D
                  /\ \A d \in 1..emb.D :
                        emb.dW[v + 1][d] =
                            SumSeq(Tab(LAMBDA n :
                                SumSeq(Tab(LAMBDA t :
                                    IF x[n][t] = v THEN dout[n][t][d] ELSE 0, T)), N))
                  /\ (\A n \in 1..N : \A t \in 1..T : x[n][t] # v) =>
                        \A d \in 1..emb.D : emb.dW[v + 1][d] = 0

\* an index that occurs three times, in both rows of x, and an index that does
\* not occur at all
C15_Witness ==
    /\ emb.pc = "backward_done"
    /\ emb.V = 3
    /\ Len(emb.x) = 2
    /\ Len(emb.x[1]) = 2
    /\ emb.x = <<<<1, 1>>, <<0, 1>>>>
    /\ emb.dW[2][1] >= 3
    /\ emb.dW[3][1] = 0

\* C16: a position (n, t) whose mask entry is False contributes nothing to the
\* returned loss, which is the sum of the cross-entropies of the positions with
\* mask True over the batch size N, and its gradient row dx[n, t, :] is zero,
\* whatever the scores and the label at that position; a position with mask
\* True has its cross-entropy in the loss and its gradient divided by N.
C16_MaskedContributeNothing ==
    tsl.pc = "returned" =>
        LET N == Len(tsl.x)
            T == Len(tsl.x[1])
            flat(n, t) == (n - 1) * T + t
            unmasked == {flat(p[1], p[2]) : p \in {q \in (1..N) \X (1..T) : tsl.mask[q[1]][q[2]]}}
            lost == \E n \in 1..N : \E t \in 1..T :
                       /\ tsl.mask[n][t]
                       /\ probs_row(tsl.x[n][t])[tsl.y[n][t] + 1] = "zero"
        IN  /\ tsl.loss = IF lost THEN [kind |-> "inf"]
                          ELSE [kind |-> "finite", terms |-> unmasked, div |-> N]
            /\ \A n \in 1..N : \A t \in 1..T : \A c \in 1..Len(tsl.dx[n][t]) :
                  IF tsl.mask[n][t]
                  THEN tsl.dx[n][t][c] =
                          [kind |-> "grad", row |-> flat(n, t), class |-> c,
                           onehot |-> (c = tsl.y[n][t] + 1), div |-> N]
                  ELSE tsl.dx[n][t][c] = [kind |-> "zero"]

\* ops of the trace tr that belong to the hidden layer i (counted from 0)
OpsOfLayer(tr, i) ==
    LET RECURSIVE pick(_)
        pick(j) == IF j > Len(tr) THEN <<>>
                   ELSE IF tr[j].cache[1] = i THEN <<tr[j].op>> \o pick(j + 1)
                   ELSE pick(j + 1)
    IN  pick(1)

NormOps ==
    {"batchnorm_forward", "layernorm_forward", "batchnorm_backward_alt", "layernorm_backward"}

\* C17: with normalization = None the network is the network without any
\* normalization parameter: params has no gamma and no beta, no loss call
\* invokes a normalization primitive, forward or backward, no gradient of a
\* gamma or a beta is produced, and the primitives of a hidden layer are
\* affine, ReLU, and dropout if it is enabled.
C17_NoneMeansNoNormalization ==
    (fcPc = "ready" /\ fc.normalization = "None") =>
        /\ \A k \in DOMAIN fc.params : k[1] \in {"W", "b"}
        /\ fcCall.made =>
              /\ \A j \in 1..Len(fcCall.forward) : fcCall.forward[j].op \notin NormOps
              /\ \A i \in 0..(fc.num_layers - 2) :
                    OpsOfLayer(fcCall.forward, i) =
                        <<"affine_forward", "relu_forward">>
                        \o (IF fc.use_dropout THEN <<"dropout_forward">> ELSE <<>>)
              /\ fcCall.labelled =>
                    /\ \A j \in 1..Len(fcCall.backward) : fcCall.backward[j].op \notin NormOps
                    /\ \A k \in fcCall.grads : k[1] \in {"W", "b"}

\* a call with labels of a network with two hidden layers and dropout, without
\* normalization: seven forward primitives
C17_Witness ==
    /\ FCCalled
    /\ fc.normalization = "None"
    /\ fcCall.labelled
    /\ fc.use_dropout
    /\ fc.num_layers = 3
    /\ Len(fcCall.forward) = 7
    /\ Len(fcCall.backward) = 7
    /\ Cardinality(fcCall.grads) = 6

\* C18: with a keep-probability of 1 no dropout stands between the layers: in
\* every loss call the ReLU of a hidden layer is followed at once by the affine
\* step of the next layer, and in the backward pass the gradient that leaves the
\* affine step of the next layer enters relu_backward; dropout follows the ReLU
\* of every hidden layer exactly when the keep-probability is below 1.
C18_DropoutOneIsIdentity ==
    FCCalled =>
        LET f == fcCall.forward
            b == fcCall.backward
        IN  /\ fc.use_dropout = (fc.dropout < 100)
            /\ \A j \in 1..Len(f) :
                  f[j].op = "relu_forward" =>
                      IF fc.dropout < 100
                      THEN f[j + 1] = [op |-> "dropout_forward",
                                       cache |-> <<f[j].cache[1], "dropout">>,
                                       mode |-> ModeOf(fcCall.labelled)]
                      ELSE /\ f[j + 1].op = "affine_forward"
                           /\ f[j + 1].cache[1] = f[j].cache[1] + 1
            /\ fc.dropout = 100 =>
                  /\ \A j \in 1..Len(f) : f[j].op # "dropout_forward"
                  /\ \A j \in 1..Len(b) : b[j].op # "dropout_backward"
            /\ fcCall.labelled =>
                  \A j \in 1..Len(b) :
                      b[j].op = "relu_backward" =>
                          IF fc.dropout < 100
                          THEN b[j - 1] = [op |-> "dropout_backward",
                                           cache |-> <<b[j].cache[1], "dropout">>]
                          ELSE /\ b[j - 1].op = "affine_backward"
                               /\ b[j - 1].cache[1] = b[j].cache[1] + 1

\* a call with labels of a network with two hidden layers built with
\* dropout = 1 and batchnorm
C18_Witness ==
    /\ FCCalled
    /\ fc.dropout = 100
    /\ fcCall.labelled
    /\ fc.num_layers = 3
    /\ fc.normalization = "batchnorm"
    /\ Len(fcCall.forward) = 7
    /\ fcCall.forward[3].op = "relu_forward"
    /\ fcCall.forward[4].op = "affine_forward"

\* ------------------------------------------------------------------- C21
GateNames == {"i", "f", "o", "g"}

\* C21: lstm_step_forward slices the pre-activation A (4H columns) into four
\* contiguous, non-overlapping blocks of width H that cover all columns, in
\* the order input, forget, output, candidate; next_c = f * prev_c + i * g
\* and next_h = o * tanh(next_c); lstm_step_backward puts the four gate
\* gradients into dA in the same block order, so the gradient of a gate
\* reaches the columns of Wx, Wh and b that produced the gate.
C21_GateBlocks ==
    cell.pc \in {"forward_done", "backward_done"} =>
        LET H == cell.H
            c == cell.cache
            n == Len(c.A)
            cols == gate_columns(n, H)
        IN  /\ n = 4 * H
            /\ \A k \in GateNames : Len(cols[k]) = H
            /\ cols.i \o cols.f \o cols.o \o cols.g = Tab(LAMBDA col : col, 4 * H)
            /\ \A j \in 1..H :
                  /\ c.i[j] = sigmoid(c.A[j])
                  /\ c.f[j] = sigmoid(c.A[H + j])
                  /\ c.o[j] = sigmoid(c.A[2 * H + j])
                  /\ c.g[j] = tanh(c.A[3 * H + j])
                  /\ cell.next_c[j] = c.f[j] * c.prev_c[j] + c.i[j] * c.g[j]
                  /\ cell.next_h[j] = c.o[j] * tanh(cell.next_c[j])
            /\ cell.pc = "backward_done" =>
                  LET r == cell.returned
                  IN  /\ Len(r.dA) = n
                      /\ \A k \in GateNames : \A j \in 1..H :
                            LET col == cols[k][j]
                                d == r.gates[k][j]
                            IN  /\ d.gate = k
                                /\ d.unit = j
                                /\ r.dA[col] = d
                                /\ r.dWx[col] = c.x * d.value
                                /\ r.db[col] = d.value
                                /\ \A row \in 1..H :
                                      r.dWh[row][col] = c.prev_h[row] * d.value

\* a step with two hidden units whose gates differ from block to block and
\* whose candidate gate has a nonzero gradient that reaches Wx, Wh and b
C21_Witness ==
    /\ cell.pc = "backward_done"
    /\ cell.H = 2
    /\ cell.cache.i # cell.cache.f
    /\ cell.cache.f # cell.cache.o
    /\ cell.cache.prev_h[2] = 0
    /\ cell.cache.x # 0
    /\ cell.cache.prev_h[1] # 0
    /\ cell.returned.gates.g[2].value # 0
    /\ cell.returned.dWx[8] # 0
    /\ cell.returned.dWh[1][8] # 0
    /\ cell.returned.db[8] # 0

\* ------------------------------------------------------------------- C22
\* C22: sigmoid branches on the sign of each element: for x >= 0 it returns
\* 1 / (1 + e^-x) and for x < 0 it returns e^x / (1 + e^x); every element
\* falls in exactly one branch, so no argument passed to np.exp is positive,
\* and the input array x is not modified.
C22_StableSigmoid ==
    sig.pc = "done" =>
        LET x == sig.x
            r == sig.run
        IN  /\ \A j \in 1..Len(x) :
                  /\ r.pos_mask[j] # r.neg_mask[j]
                  /\ x[j] >= 0 => r.out[j] = [top |-> const(1), z |-> exp(0 - x[j])]
                  /\ x[j] < 0 => r.out[j] = [top |-> exp(x[j]), z |-> exp(x[j])]
            /\ \A c \in 1..Len(r.exp_args) :
                  \A k \in 1..Len(r.exp_args[c]) : r.exp_args[c][k] <= 0
            /\ Len(r.exp_args[1]) + Len(r.exp_args[2]) = Len(x)
            /\ \A k \in 1..Len(r.assigned) : r.assigned[k] # "x"
            /\ r.arrays.x = x

\* an array with a positive, a zero and a negative element
C22_Witness ==
    /\ sig.pc = "done"
    /\ \E j, k, l \in 1..Len(sig.x) :
          /\ sig.x[j] > 0
          /\ sig.x[k] = 0
          /\ sig.x[l] < 0
          /\ sig.run.exp_args[1] # <<>>
          /\ sig.run.exp_args[2] # <<>>

\* ------------------------------------------------------------------- C23
ReturnedBy(frame) ==
    [dx |-> frame.dx, dh0 |-> frame.dh0, dWx |-> frame.dWx,
     dWh |-> frame.dWh, db |-> frame.db]

\* C23: rnn_backward and lstm_backward leave the caller's array dh unchanged
\* (the recurrent gradients are added into a private copy), and
\* lstm_step_backward leaves its dnext_c argument unchanged, so a second call
\* of a backward function with the same dh and cache returns the same
\* gradients as the first.
C23_BackwardKeepsArguments ==
    /\ rnn.pc \in {"backward", "backward_done"} =>
          /\ rnn.dh = rnn.dh_given
          /\ rnn.pc = "backward_done" /\ rnn.round = 2 =>
                ReturnedBy(rnn) = rnn.first
    /\ lstm.pc \in {"backward", "backward_done"} =>
          /\ lstm.dh = lstm.dh_given
          /\ \A k \in 1..Len(lstm.calls) :
                lstm.calls[k].returned.after.dnext_c = lstm.calls[k].dnext_c
          /\ lstm.pc = "backward_done" /\ lstm.round = 2 =>
                ReturnedBy(lstm) = lstm.first

\* a second lstm_backward has returned; in both calls the private copy of dh
\* received a recurrent gradient, and a step added to its copy of dnext_c
C23_Witness ==
    /\ lstm.pc = "backward_done"
    /\ lstm.round = 2
    /\ lstm.T >= 2
    /\ lstm.dhcopy # lstm.dh
    /\ lstm.first.dWx # <<0, 0, 0, 0>>
    /\ \E k \in 1..Len(lstm.calls) :
          /\ lstm.cache[lstm.calls[k].t + 1].f = 1
          /\ lstm.calls[k].returned.dprev_c # lstm.calls[k].dnext_c

\* the same for rnn_backward
C23_WitnessRnn ==
    /\ rnn.pc = "backward_done"
    /\ rnn.round = 2
    /\ rnn.T >= 2
    /\ rnn.dhcopy # rnn.dh
    /\ rnn.first.dWx # 0
====
